---- MODULE Spec2Model ----
(***************************************************************************)
(* The agricultural assistant of class AgriculturalAssistantV5, as written *)
(* in src/assistantV5.py and in its later revision                         *)
(* src/assistantV4/assistantV4_b.py: start-up (__init__), the session loop *)
(* (run), one turn (process_query) and the functions a turn calls.         *)
(*                                                                         *)
(* A Python str is modelled as the sequence of its Unicode code points, so *)
(* that lower(), `in`, split() and startswith() are computed as Python     *)
(* computes them.  S("...") writes an ASCII text; Devanagari text is       *)
(* written as its code points.                                             *)
(***************************************************************************)
EXTENDS Integers, Sequences, FiniteSets, TLC

\* ------------------------------------------------------------------ text

\* The ASCII characters a TLA+ string can hold, in runs of consecutive codes.
AsciiRuns ==
  << [first |-> 32, chars |-> " !"],
     [first |-> 35, chars |-> "#$%&'()*+,-./0123456789:;<=>?@ABCDEFGHIJKLMNOPQRSTUVWXYZ["],
     [first |-> 93, chars |-> "]^_"],
     [first |-> 97, chars |-> "abcdefghijklmnopqrstuvwxyz{|}~"] >>

\* ord(): one-character string -> code point.
OrdTable ==
  LET pairs_of(runs) ==
        UNION {{<<SubSeq(runs[r].chars, i, i), runs[r].first + i - 1>> :
                  i \in 1..Len(runs[r].chars)} : r \in 1..Len(runs)}
      table_of(pairs) ==
        [ch \in {p[1] : p \in pairs} |-> (CHOOSE p \in pairs : p[1] = ch)[2]]
  IN  table_of(pairs_of(AsciiRuns))

\* The text (code points) of an ASCII string literal.
S(str) == [i \in 1..Len(str) |-> OrdTable[SubSeq(str, i, i)]]

\* The Devanagari block tested by detect_language: [ऀ-ॿ].
DevanagariFirst == 2304
DevanagariLast == 2431

\* str.lower() on texts of ASCII and Devanagari characters: A-Z map to a-z,
\* every other character of these two blocks is its own lower case.
lower(text) ==
  [i \in 1..Len(text) |-> IF text[i] >= 65 /\ text[i] <= 90 THEN text[i] + 32 ELSE text[i]]

\* Python's `w in text` for strings: w occurs as a contiguous substring.
Contains(text, w) ==
  \E i \in 1..(Len(text) - Len(w) + 1) : SubSeq(text, i, i + Len(w) - 1) = w

\* str.startswith(prefix).
startswith(text, prefix) ==
  Len(prefix) <= Len(text) /\ SubSeq(text, 1, Len(prefix)) = prefix

\* any(word in text for word in words), words a list.
AnyIn(words, text) == \E k \in 1..Len(words) : Contains(text, words[k])

\* Whitespace for str.split(): space, \t, \n, \v, \f, \r.
IsSpace(c) == c \in {9, 10, 11, 12, 13, 32}

\* str.split() with no argument: the maximal runs of non-whitespace characters.
RECURSIVE SplitFrom(_, _, _)
SplitFrom(text, i, word) ==
  IF i > Len(text)
  THEN IF word = <<>> THEN <<>> ELSE <<word>>
  ELSE IF IsSpace(text[i])
       THEN (IF word = <<>> THEN <<>> ELSE <<word>>) \o SplitFrom(text, i + 1, <<>>)
       ELSE SplitFrom(text, i + 1, Append(word, text[i]))

split(text) == SplitFrom(text, 1, <<>>)

\* str.replace(old, new), leftmost non-overlapping occurrences (old non-empty).
RECURSIVE ReplaceFrom(_, _, _, _)
ReplaceFrom(text, i, old, new) ==
  IF i > Len(text) THEN <<>>
  ELSE IF i + Len(old) - 1 <= Len(text) /\ SubSeq(text, i, i + Len(old) - 1) = old
       THEN new \o ReplaceFrom(text, i + Len(old), old, new)
       ELSE <<text[i]>> \o ReplaceFrom(text, i + 1, old, new)

replace(text, old, new) == ReplaceFrom(text, 1, old, new)

\* crop_map of extract_entities, src/assistantV5.py:356-372 (declared key order, variants in order)
crop_map_V5 ==
  <<
  [key |-> S("wheat"), variations |-> << S("wheat"), S("gehun"), <<2327, 2375, 2361, 2370, 2306>>, <<2327, 2375, 2361, 2370, 2305>> >>],
  [key |-> S("rice"), variations |-> << S("rice"), S("chawal"), S("chaval"), <<2330, 2366, 2357, 2354>>, S("dhan"), <<2343, 2366, 2344>>, S("paddy"), S("paddy(dhan)(common)") >>],
  [key |-> S("tomato"), variations |-> << S("tomato"), S("tamatar"), <<2335, 2350, 2366, 2335, 2352>> >>],
  [key |-> S("potato"), variations |-> << S("potato"), S("aloo"), S("aalu"), <<2310, 2354, 2370>>, <<2310, 2354, 2369>> >>],
  [key |-> S("tur"), variations |-> << S("tur"), S("arhar"), S("red gram"), <<2309, 2352, 2361, 2352>>, <<2340, 2370, 2352>> >>],
  [key |-> S("gram"), variations |-> << S("gram"), S("chana"), S("bengal gram"), <<2330, 2344, 2366>>, <<2330, 2344, 2366>> \o S(" ") \o <<2342, 2366, 2354>> >>],
  [key |-> S("urd"), variations |-> << S("urd"), S("black gram"), S("urad"), <<2313, 2337, 2364, 2342>>, <<2325, 2366, 2354, 2366>> \o S(" ") \o <<2330, 2344, 2366>> >>],
  [key |-> S("millet"), variations |-> << S("millet"), S("navane"), S("foxtail millet"), <<2348, 2366, 2332, 2352, 2366>>, <<2350, 2367, 2354, 2375, 2335>> >>],
  [key |-> S("jaggery"), variations |-> << S("jaggery"), S("gur"), <<2327, 2369, 2337, 2364>>, <<2332, 2376, 2327, 2352, 2368>> >>],
  [key |-> S("cucumber"), variations |-> << S("cucumber"), S("kheera"), S("cucumbar"), <<2326, 2368, 2352, 2366>>, <<2325, 2325, 2337, 2364, 2368>> >>],
  [key |-> S("chilli"), variations |-> << S("chilli"), S("mirchi"), S("green chilli"), <<2350, 2367, 2352, 2381, 2330>>, <<2361, 2352, 2368>> \o S(" ") \o <<2350, 2367, 2352, 2381, 2330>> >>],
  [key |-> S("lemon"), variations |-> << S("lemon"), S("nimbu"), <<2344, 2368, 2306, 2348, 2370>>, <<2354, 2375, 2350, 2344>> >>],
  [key |-> S("pumpkin"), variations |-> << S("pumpkin"), S("kaddu"), <<2325, 2342, 2381, 2342, 2370>>, <<2346, 2350, 2381, 2346, 2325, 2367, 2344>> >>],
  [key |-> S("maize"), variations |-> << S("maize"), S("makka"), <<2350, 2325, 2381, 2325, 2366>>, S("corn"), <<2350, 2325, 2312>> >>],
  [key |-> S("sugarcane"), variations |-> << S("sugarcane"), S("ganna"), <<2327, 2344, 2381, 2344, 2366>> >>]
  >>

\* location_map of extract_entities, src/assistantV5.py:375-393 (declared key order, variants in order)
location_map_V5 ==
  <<
  [key |-> S("andhra pradesh"), variations |-> << S("andhra pradesh"), S("andhra"), <<2310, 2306, 2343, 2381, 2352>> \o S(" ") \o <<2346, 2381, 2352, 2342, 2375, 2358>> >>],
  [key |-> S("chittor"), variations |-> << S("chittor"), S("chittoor"), <<2330, 2367, 2340, 2381, 2340, 2370, 2352>> >>],
  [key |-> S("krishna"), variations |-> << S("krishna"), <<2325, 2371, 2359, 2381, 2339, 2366>> >>],
  [key |-> S("kurnool"), variations |-> << S("kurnool"), <<2325, 2369, 2352, 2381, 2344, 2370, 2354>> >>],
  [key |-> S("nellore"), variations |-> << S("nellore"), <<2344, 2375, 2354, 2381, 2354, 2379, 2352>> >>],
  [key |-> S("bihar"), variations |-> << S("bihar"), <<2348, 2367, 2361, 2366, 2352>> >>],
  [key |-> S("bhojpur"), variations |-> << S("bhojpur"), S("bhojpur"), <<2349, 2379, 2332, 2346, 2369, 2352>> >>],
  [key |-> S("chandigarh"), variations |-> << S("chandigarh"), <<2330, 2306, 2337, 2368, 2327, 2338, 2364>> >>],
  [key |-> S("chattisgarh"), variations |-> << S("chattisgarh"), S("chhattisgarh"), <<2331, 2340, 2381, 2340, 2368, 2360, 2327, 2338, 2364>> >>],
  [key |-> S("balodabazar"), variations |-> << S("balodabazar"), <<2348, 2366, 2354, 2379, 2342, 2366, 2348, 2366, 2332, 2366, 2352>> >>],
  [key |-> S("bilaspur"), variations |-> << S("bilaspur"), <<2348, 2367, 2354, 2366, 2360, 2346, 2369, 2352>> >>],
  [key |-> S("patna"), variations |-> << S("patna"), <<2346, 2335, 2344, 2366>> >>],
  [key |-> S("delhi"), variations |-> << S("delhi"), S("dilli"), <<2342, 2367, 2354, 2381, 2354, 2368>> >>],
  [key |-> S("pune"), variations |-> << S("pune"), <<2346, 2369, 2339, 2375>> >>],
  [key |-> S("bangalore"), variations |-> << S("bangalore"), S("bengaluru"), <<2348, 2376, 2306, 2327, 2354, 2379, 2352>>, <<2348, 2375, 2306, 2327, 2354, 2369, 2352, 2369>> >>],
  [key |-> S("mumbai"), variations |-> << S("mumbai"), S("bombay"), <<2350, 2369, 2306, 2348, 2312>> >>],
  [key |-> S("kolkata"), variations |-> << S("kolkata"), S("calcutta"), <<2325, 2379, 2354, 2325, 2366, 2340, 2366>> >>]
  >>

\* variety_map of extract_entities, src/assistantV5.py:396-403 (declared key order, variants in order)
variety_map_V5 ==
  <<
  [key |-> S("hybrid"), variations |-> << S("hybrid"), <<2361, 2366, 2311, 2348, 2381, 2352, 2367, 2337>> >>],
  [key |-> S("achhu"), variations |-> << S("achhu"), <<2310, 2330, 2381, 2331, 2370>> >>],
  [key |-> S("bpt"), variations |-> << S("b p t"), S("bpt"), <<2348, 2368, 2346, 2368, 2335, 2368>> >>],
  [key |-> S("sona"), variations |-> << S("sona"), <<2360, 2379, 2344, 2366>> >>],
  [key |-> S("local"), variations |-> << S("local"), <<2360, 2381, 2341, 2366, 2344, 2368, 2351>> >>],
  [key |-> S("jyoti"), variations |-> << S("jyoti"), <<2332, 2381, 2351, 2379, 2340, 2367>> >>]
  >>

\* hindi_price_words of classify_intent_rule_based, src/assistantV5.py:286
hindi_price_words_V5 ==
  << <<2349, 2366, 2357>>, <<2350, 2370, 2354, 2381, 2351>>, <<2342, 2352>>, <<2325, 2368, 2350, 2340>>, <<2354, 2366, 2327, 2340>>, <<2348, 2366, 2332, 2366, 2352>>, <<2350, 2306, 2337, 2368>> >>

\* hindi_weather_words of classify_intent_rule_based, src/assistantV5.py:287
hindi_weather_words_V5 ==
  << <<2350, 2380, 2360, 2350>>, <<2348, 2366, 2352, 2367, 2358>>, <<2340, 2366, 2346, 2350, 2366, 2344>>, <<2357, 2352, 2381, 2359, 2366>>, <<2327, 2352, 2381, 2350, 2368>>, <<2360, 2352, 2381, 2342, 2368>>, <<2310, 2352, 2381, 2342, 2381, 2352, 2340, 2366>> >>

\* hindi_advice_words of classify_intent_rule_based, src/assistantV5.py:288
hindi_advice_words_V5 ==
  << <<2352, 2379, 2327>>, <<2325, 2368, 2335>>, <<2360, 2350, 2360, 2381, 2351, 2366>>, <<2360, 2354, 2366, 2361>>, <<2313, 2346, 2366, 2351>>, <<2332, 2366, 2344, 2325, 2366, 2352, 2368>>, <<2313, 2346, 2330, 2366, 2352>>, <<2348, 2368, 2350, 2366, 2352, 2368>> >>

\* hindi_greeting_words of classify_intent_rule_based, src/assistantV5.py:289
hindi_greeting_words_V5 ==
  << <<2344, 2350, 2360, 2381, 2340, 2375>>, <<2361, 2376, 2354, 2379>>, <<2361, 2366, 2351>>, <<2325, 2376, 2360, 2375>>, <<2343, 2344, 2381, 2351, 2357, 2366, 2342>>, <<2358, 2369, 2325, 2381, 2352, 2367, 2351, 2366>> >>

\* hindi_variety_words of classify_intent_rule_based, src/assistantV5.py:290
hindi_variety_words_V5 ==
  << <<2325, 2367, 2360, 2381, 2350>>, <<2346, 2381, 2352, 2332, 2366, 2340, 2367>>, <<2357, 2376, 2352, 2366, 2351, 2335, 2368>>, <<2348, 2368, 2332>> >>

\* hindi_market_words of classify_intent_rule_based, src/assistantV5.py:291
hindi_market_words_V5 ==
  << <<2348, 2366, 2332, 2366, 2352>>, <<2350, 2306, 2337, 2368>>, <<2348, 2367, 2325, 2381, 2352, 2368>>, <<2326, 2352, 2368, 2342>> >>

\* hindi_roman_words of detect_language, src/assistantV5.py:338-340
hindi_roman_words_V5 ==
  << S("ka"), S("ki"), S("ke"), S("mein"), S("batao"), S("kya"), S("hai"), S("hain"), S("chahiye"), S("bhav"), S("mausam"), S("salah"), S("rog"), S("keet"), S("samasya"), S("kichad"), S("pani"), S("baarish"), S("garmi"), S("sardi") >>

\* crop_map of extract_entities, src/assistantV4/assistantV4_b.py:361-434 (declared key order, variants in order)
crop_map_V4b ==
  <<
  [key |-> S("wheat"), variations |-> << S("wheat"), S("gehun"), <<2327, 2375, 2361, 2370, 2306>>, <<2327, 2375, 2361, 2370, 2305>>, S("sonalika"), S("lokwan"), S("deshi") >>],
  [key |-> S("rice"), variations |-> << S("rice"), S("chawal"), S("chaval"), <<2330, 2366, 2357, 2354>>, S("dhan"), <<2343, 2366, 2344>>, S("paddy"), S("paddy(dhan)(common)"), S("paddy(dhan)(basmati)") >>],
  [key |-> S("tomato"), variations |-> << S("tomato"), S("tamatar"), <<2335, 2350, 2366, 2335, 2352>> >>],
  [key |-> S("potato"), variations |-> << S("potato"), S("aloo"), S("aalu"), <<2310, 2354, 2370>>, <<2310, 2354, 2369>> >>],
  [key |-> S("tur"), variations |-> << S("tur"), S("arhar"), S("red gram"), <<2309, 2352, 2361, 2352>>, <<2340, 2370, 2352>>, S("arhar (tur/red gram)(whole)"), S("arhar dal(tur dal)") >>],
  [key |-> S("gram"), variations |-> << S("gram"), S("chana"), S("bengal gram"), <<2330, 2344, 2366>>, <<2330, 2344, 2366>> \o S(" ") \o <<2342, 2366, 2354>>, S("bengal gram(gram)(whole)"), S("kabuli chana(chickpeas-white)"), S("bengal gram dal (chana dal)") >>],
  [key |-> S("urd"), variations |-> << S("urd"), S("black gram"), S("urad"), <<2313, 2337, 2364, 2342>>, <<2325, 2366, 2354, 2366>> \o S(" ") \o <<2330, 2344, 2366>>, S("black gram (urd beans)(whole)"), S("black gram dal (urd dal)") >>],
  [key |-> S("millet"), variations |-> << S("millet"), S("navane"), S("foxtail millet"), <<2348, 2366, 2332, 2352, 2366>>, <<2350, 2367, 2354, 2375, 2335>>, S("bajra(pearl millet/cumbu)") >>],
  [key |-> S("jaggery"), variations |-> << S("jaggery"), S("gur"), <<2327, 2369, 2337, 2364>>, <<2332, 2376, 2327, 2352, 2368>>, S("gur(jaggery)") >>],
  [key |-> S("cucumber"), variations |-> << S("cucumber"), S("kheera"), S("cucumbar"), <<2326, 2368, 2352, 2366>>, <<2325, 2325, 2337, 2364, 2368>>, S("cucumbar(kheera)") >>],
  [key |-> S("chilli"), variations |-> << S("chilli"), S("mirchi"), S("green chilli"), <<2350, 2367, 2352, 2381, 2330>>, <<2361, 2352, 2368>> \o S(" ") \o <<2350, 2367, 2352, 2381, 2330>>, S("dry chillies") >>],
  [key |-> S("lemon"), variations |-> << S("lemon"), S("nimbu"), <<2344, 2368, 2306, 2348, 2370>>, <<2354, 2375, 2350, 2344>>, S("lime") >>],
  [key |-> S("pumpkin"), variations |-> << S("pumpkin"), S("kaddu"), <<2325, 2342, 2381, 2342, 2370>>, <<2346, 2350, 2381, 2346, 2325, 2367, 2344>> >>],
  [key |-> S("maize"), variations |-> << S("maize"), S("makka"), <<2350, 2325, 2381, 2325, 2366>>, S("corn"), <<2350, 2325, 2312>> >>],
  [key |-> S("sugarcane"), variations |-> << S("sugarcane"), S("ganna"), <<2327, 2344, 2381, 2344, 2366>> >>],
  [key |-> S("onion"), variations |-> << S("onion"), S("pyaaz"), <<2346, 2381, 2351, 2366, 2332>> >>],
  [key |-> S("ginger"), variations |-> << S("ginger"), S("adrak"), <<2309, 2342, 2352, 2325>>, S("ginger(green)"), S("ginger(dry)") >>],
  [key |-> S("garlic"), variations |-> << S("garlic"), S("lahsun"), <<2354, 2361, 2360, 2369, 2344>> >>],
  [key |-> S("banana"), variations |-> << S("banana"), S("kela"), <<2325, 2375, 2354, 2366>>, S("banana - green") >>],
  [key |-> S("apple"), variations |-> << S("apple"), S("seb"), <<2360, 2375, 2348>> >>],
  [key |-> S("cabbage"), variations |-> << S("cabbage"), S("patta gobhi"), <<2346, 2340, 2381, 2340, 2366>> \o S(" ") \o <<2327, 2379, 2349, 2368>> >>],
  [key |-> S("cauliflower"), variations |-> << S("cauliflower"), S("phool gobhi"), <<2347, 2370, 2354>> \o S(" ") \o <<2327, 2379, 2349, 2368>> >>],
  [key |-> S("brinjal"), variations |-> << S("brinjal"), S("baingan"), <<2348, 2376, 2306, 2327, 2344>>, S("eggplant") >>],
  [key |-> S("bhindi"), variations |-> << S("bhindi"), S("ladies finger"), S("okra"), <<2349, 2367, 2306, 2337, 2368>>, S("bhindi(ladies finger)") >>],
  [key |-> S("capsicum"), variations |-> << S("capsicum"), S("shimla mirch"), <<2358, 2367, 2350, 2354, 2366>> \o S(" ") \o <<2350, 2367, 2352, 2381, 2330>>, S("chilly capsicum") >>],
  [key |-> S("carrot"), variations |-> << S("carrot"), S("gajar"), <<2327, 2366, 2332, 2352>> >>],
  [key |-> S("soyabean"), variations |-> << S("soyabean"), S("soyabeen"), <<2360, 2379, 2351, 2366, 2348, 2368, 2344>> >>],
  [key |-> S("mustard"), variations |-> << S("mustard"), S("sarson"), <<2360, 2352, 2360, 2379, 2306>>, S("mustard oil") >>],
  [key |-> S("sesame"), variations |-> << S("sesamum(sesame,gingelly,til)"), S("til"), <<2340, 2367, 2354>>, S("sesame") >>],
  [key |-> S("cumin"), variations |-> << S("cummin seed(jeera)"), S("jeera"), <<2332, 2368, 2352, 2366>> >>],
  [key |-> S("castor seed"), variations |-> << S("castor seed") >>],
  [key |-> S("cotton"), variations |-> << S("cotton"), S("kapas"), <<2325, 2346, 2366, 2360>> >>],
  [key |-> S("groundnut"), variations |-> << S("groundnut"), S("moongphali"), <<2350, 2370, 2306, 2327, 2347, 2354, 2368>>, S("ground nut seed"), S("groundnut pods (raw)") >>],
  [key |-> S("jowar"), variations |-> << S("jowar(sorghum)"), S("jowar"), S("sorghum"), <<2332, 2381, 2357, 2366, 2352>> >>],
  [key |-> S("guar"), variations |-> << S("guar"), S("gwar"), <<2327, 2381, 2357, 2366, 2352>> >>],
  [key |-> S("ajwan"), variations |-> << S("ajwan"), S("ajwain"), <<2309, 2332, 2357, 2366, 2311, 2344>> >>],
  [key |-> S("coriander"), variations |-> << S("coriander(leaves)"), S("coriander"), S("dhania"), <<2343, 2344, 2367, 2351, 2366>>, S("corriander seed") >>],
  [key |-> S("arecanut"), variations |-> << S("arecanut(betelnut/supari)"), S("supari"), <<2360, 2369, 2346, 2366, 2352, 2368>> >>],
  [key |-> S("coconut"), variations |-> << S("coconut"), S("nariyal"), <<2344, 2366, 2352, 2367, 2351, 2354>>, S("copra") >>],
  [key |-> S("papaya"), variations |-> << S("papaya"), S("papita"), <<2346, 2346, 2368, 2340, 2366>>, S("papaya (raw)") >>],
  [key |-> S("peas"), variations |-> << S("peas wet"), S("matar"), <<2350, 2335, 2352>>, S("green peas"), S("peas cod"), S("white peas"), S("peas(dry)") >>],
  [key |-> S("guava"), variations |-> << S("guava"), S("amrood"), <<2309, 2350, 2352, 2370, 2342>> >>],
  [key |-> S("pomegranate"), variations |-> << S("pomegranate"), S("anar"), <<2309, 2344, 2366, 2352>> >>],
  [key |-> S("raddish"), variations |-> << S("raddish"), S("mooli"), <<2350, 2370, 2354, 2368>> >>],
  [key |-> S("spinach"), variations |-> << S("spinach"), S("palak"), <<2346, 2366, 2354, 2325>> >>],
  [key |-> S("colacasia"), variations |-> << S("colacasia"), S("arbi"), <<2309, 2352, 2348, 2368>> >>],
  [key |-> S("bitter gourd"), variations |-> << S("bitter gourd"), S("karela"), <<2325, 2352, 2375, 2354, 2366>> >>],
  [key |-> S("bottle gourd"), variations |-> << S("bottle gourd"), S("lauki"), <<2354, 2380, 2325, 2368>> >>],
  [key |-> S("ridgeguard"), variations |-> << S("ridgeguard(tori)"), S("tori"), <<2340, 2379, 2352, 2368>> >>],
  [key |-> S("snakeguard"), variations |-> << S("snakeguard"), S("chichinda"), <<2330, 2367, 2330, 2367, 2306, 2337, 2366>> >>],
  [key |-> S("wood"), variations |-> << S("wood"), S("lakdi"), <<2354, 2325, 2337, 2364, 2368>> >>],
  [key |-> S("moong"), variations |-> << S("green gram (moong)(whole)"), S("moong"), <<2350, 2370, 2306, 2327>> >>],
  [key |-> S("methi"), variations |-> << S("methi seeds"), S("methi"), <<2350, 2375, 2341, 2368>> >>],
  [key |-> S("soanf"), variations |-> << S("soanf"), S("saunf"), <<2360, 2380, 2306, 2347>> >>],
  [key |-> S("drumstick"), variations |-> << S("drumstick"), S("sahjan"), <<2360, 2361, 2332, 2344>> >>],
  [key |-> S("pear"), variations |-> << S("pear(marasebu)"), S("nashpati"), <<2344, 2366, 2358, 2346, 2366, 2340, 2368>> >>],
  [key |-> S("grapes"), variations |-> << S("grapes"), S("angoor"), <<2309, 2306, 2327, 2370, 2352>> >>],
  [key |-> S("orange"), variations |-> << S("orange"), S("santara"), <<2360, 2306, 2340, 2352, 2366>> >>],
  [key |-> S("pineapple"), variations |-> << S("pineapple"), S("ananas"), <<2309, 2344, 2366, 2344, 2366, 2360>> >>],
  [key |-> S("watermelon"), variations |-> << S("water melon"), S("tarbooj"), <<2340, 2352, 2348, 2370, 2332>> >>],
  [key |-> S("tapioca"), variations |-> << S("tapioca") >>],
  [key |-> S("rubber"), variations |-> << S("rubber") >>],
  [key |-> S("pepper"), variations |-> << S("black pepper"), S("pepper ungarbled"), S("kali mirch"), <<2325, 2366, 2354, 2368>> \o S(" ") \o <<2350, 2367, 2352, 2381, 2330>> >>],
  [key |-> S("nutmeg"), variations |-> << S("nutmeg"), S("jaiphal"), <<2332, 2366, 2351, 2347, 2354>> >>],
  [key |-> S("turmeric"), variations |-> << S("turmeric"), S("haldi"), <<2361, 2354, 2381, 2342, 2368>> >>],
  [key |-> S("barley"), variations |-> << S("barley (jau)"), S("jau"), <<2332, 2380>> >>],
  [key |-> S("ghee"), variations |-> << S("ghee"), <<2328, 2368>> >>],
  [key |-> S("lentil"), variations |-> << S("lentil (masur)(whole)"), S("masur dal"), S("masoor"), <<2350, 2360, 2370, 2352>> >>],
  [key |-> S("parval"), variations |-> << S("pointed gourd (parval)"), S("parval"), <<2346, 2352, 2357, 2354>> >>],
  [key |-> S("sweet lime"), variations |-> << S("mousambi(sweet lime)"), S("mosambi"), <<2350, 2380, 2360, 2350, 2381, 2348, 2368>> >>],
  [key |-> S("linseed"), variations |-> << S("linseed"), S("alsi"), <<2309, 2354, 2360, 2368>> >>],
  [key |-> S("sponge gourd"), variations |-> << S("sponge gourd"), S("nenua"), <<2344, 2375, 2344, 2369, 2310>> >>]
  >>

\* location_map of extract_entities, src/assistantV4/assistantV4_b.py:436-617 (declared key order, variants in order)
location_map_V4b ==
  <<
  [key |-> S("andhra pradesh"), variations |-> << S("andhra pradesh"), S("andhra"), <<2310, 2306, 2343, 2381, 2352>> \o S(" ") \o <<2346, 2381, 2352, 2342, 2375, 2358>> >>],
  [key |-> S("bihar"), variations |-> << S("bihar"), <<2348, 2367, 2361, 2366, 2352>> >>],
  [key |-> S("chandigarh"), variations |-> << S("chandigarh"), <<2330, 2306, 2337, 2368, 2327, 2338, 2364>> >>],
  [key |-> S("chattisgarh"), variations |-> << S("chattisgarh"), S("chhattisgarh"), <<2331, 2340, 2381, 2340, 2368, 2360, 2327, 2338, 2364>> >>],
  [key |-> S("gujarat"), variations |-> << S("gujarat"), <<2327, 2369, 2332, 2352, 2366, 2340>> >>],
  [key |-> S("haryana"), variations |-> << S("haryana"), <<2361, 2352, 2367, 2351, 2366, 2339, 2366>> >>],
  [key |-> S("himachal pradesh"), variations |-> << S("himachal pradesh"), <<2361, 2367, 2350, 2366, 2330, 2354>> \o S(" ") \o <<2346, 2381, 2352, 2342, 2375, 2358>> >>],
  [key |-> S("jammu and kashmir"), variations |-> << S("jammu and kashmir"), S("jammu"), S("kashmir"), <<2332, 2350, 2381, 2350, 2370>> \o S(" ") \o <<2324, 2352>> \o S(" ") \o <<2325, 2358, 2381, 2350, 2368, 2352>> >>],
  [key |-> S("karnataka"), variations |-> << S("karnataka"), <<2325, 2352, 2381, 2344, 2366, 2335, 2325>> >>],
  [key |-> S("kerala"), variations |-> << S("kerala"), <<2325, 2375, 2352, 2354>> >>],
  [key |-> S("uttar pradesh"), variations |-> << S("uttar pradesh"), S("up"), <<2313, 2340, 2381, 2340, 2352>> \o S(" ") \o <<2346, 2381, 2352, 2342, 2375, 2358>> >>],
  [key |-> S("delhi"), variations |-> << S("delhi"), S("dilli"), <<2342, 2367, 2354, 2381, 2354, 2368>> >>],
  [key |-> S("agra"), variations |-> << S("agra"), <<2310, 2327, 2352, 2366>> >>],
  [key |-> S("aligarh"), variations |-> << S("aligarh"), <<2309, 2354, 2368, 2327, 2338, 2364>> >>],
  [key |-> S("ambedkarnagar"), variations |-> << S("ambedkarnagar"), <<2309, 2350, 2381, 2348, 2375, 2337, 2325, 2352>> \o S(" ") \o <<2344, 2327, 2352>> >>],
  [key |-> S("amethi"), variations |-> << S("amethi"), <<2309, 2350, 2375, 2336, 2368>> >>],
  [key |-> S("amroha"), variations |-> << S("amroha"), <<2309, 2350, 2352, 2379, 2361, 2366>> >>],
  [key |-> S("auraiya"), variations |-> << S("auraiya"), <<2324, 2352, 2376, 2351, 2366>> >>],
  [key |-> S("ayodhya"), variations |-> << S("ayodhya"), <<2309, 2351, 2379, 2343, 2381, 2351, 2366>> >>],
  [key |-> S("azamgarh"), variations |-> << S("azamgarh"), <<2310, 2332, 2350, 2327, 2338, 2364>> >>],
  [key |-> S("badaun"), variations |-> << S("badaun"), <<2348, 2342, 2366, 2351, 2370, 2306>> >>],
  [key |-> S("baghpat"), variations |-> << S("baghpat"), <<2348, 2366, 2327, 2346, 2340>> >>],
  [key |-> S("bahraich"), variations |-> << S("bahraich"), <<2348, 2361, 2352, 2366, 2311, 2330>> >>],
  [key |-> S("ballia"), variations |-> << S("ballia"), <<2348, 2354, 2367, 2351, 2366>> >>],
  [key |-> S("balrampur"), variations |-> << S("balrampur"), <<2348, 2354, 2352, 2366, 2350, 2346, 2369, 2352>> >>],
  [key |-> S("banda"), variations |-> << S("banda"), <<2348, 2366, 2306, 2342, 2366>> >>],
  [key |-> S("barabanki"), variations |-> << S("barabanki"), <<2348, 2366, 2352, 2366, 2348, 2306, 2325, 2368>> >>],
  [key |-> S("bareilly"), variations |-> << S("bareilly"), <<2348, 2352, 2375, 2354, 2368>> >>],
  [key |-> S("basti"), variations |-> << S("basti"), <<2348, 2360, 2381, 2340, 2368>> >>],
  [key |-> S("bijnor"), variations |-> << S("bijnor"), <<2348, 2367, 2332, 2344, 2380, 2352>> >>],
  [key |-> S("bulandshahar"), variations |-> << S("bulandshahar"), <<2348, 2369, 2354, 2306, 2342, 2358, 2361, 2352>> >>],
  [key |-> S("chandauli"), variations |-> << S("chandauli"), <<2330, 2306, 2342, 2380, 2354, 2368>> >>],
  [key |-> S("chitrakut"), variations |-> << S("chitrakut"), <<2330, 2367, 2340, 2381, 2352, 2325, 2370, 2335>> >>],
  [key |-> S("deoria"), variations |-> << S("deoria"), <<2342, 2375, 2357, 2352, 2367, 2351, 2366>> >>],
  [key |-> S("etah"), variations |-> << S("etah"), <<2319, 2335, 2366>> >>],
  [key |-> S("etawah"), variations |-> << S("etawah"), <<2311, 2335, 2366, 2357, 2366>> >>],
  [key |-> S("farukhabad"), variations |-> << S("farukhabad"), <<2347, 2352, 2381, 2352, 2369, 2326, 2366, 2348, 2366, 2342>> >>],
  [key |-> S("fatehpur"), variations |-> << S("fatehpur"), <<2347, 2340, 2375, 2361, 2346, 2369, 2352>> >>],
  [key |-> S("firozabad"), variations |-> << S("firozabad"), <<2347, 2367, 2352, 2379, 2332, 2366, 2348, 2366, 2342>> >>],
  [key |-> S("ghaziabad"), variations |-> << S("ghaziabad"), <<2327, 2366, 2332, 2367, 2351, 2366, 2348, 2366, 2342>> >>],
  [key |-> S("ghazipur"), variations |-> << S("ghazipur"), <<2327, 2366, 2332, 2368, 2346, 2369, 2352>> >>],
  [key |-> S("gonda"), variations |-> << S("gonda"), <<2327, 2379, 2306, 2337, 2366>> >>],
  [key |-> S("gorakhpur"), variations |-> << S("gorakhpur"), <<2327, 2379, 2352, 2326, 2346, 2369, 2352>> >>],
  [key |-> S("hardoi"), variations |-> << S("hardoi"), <<2361, 2352, 2342, 2379, 2312>> >>],
  [key |-> S("hathras"), variations |-> << S("hathras"), <<2361, 2366, 2341, 2352, 2360>> >>],
  [key |-> S("jalaun (orai)"), variations |-> << S("jalaun"), S("orai"), <<2332, 2366, 2354, 2380, 2344>>, <<2313, 2352, 2312>> >>],
  [key |-> S("jaunpur"), variations |-> << S("jaunpur"), <<2332, 2380, 2344, 2346, 2369, 2352>> >>],
  [key |-> S("jhansi"), variations |-> << S("jhansi"), <<2333, 2366, 2306, 2360, 2368>> >>],
  [key |-> S("kannuj"), variations |-> << S("kannuj"), S("kannauj"), <<2325, 2344, 2381, 2344, 2380, 2332>> >>],
  [key |-> S("kanpur"), variations |-> << S("kanpur"), <<2325, 2366, 2344, 2346, 2369, 2352>> >>],
  [key |-> S("kanpur dehat"), variations |-> << S("kanpur dehat"), <<2325, 2366, 2344, 2346, 2369, 2352>> \o S(" ") \o <<2342, 2375, 2361, 2366, 2340>> >>],
  [key |-> S("kasganj"), variations |-> << S("kasganj"), <<2325, 2366, 2360, 2327, 2306, 2332>> >>],
  [key |-> S("kaushambi"), variations |-> << S("kaushambi"), <<2325, 2380, 2358, 2366, 2350, 2381, 2348, 2368>> >>],
  [key |-> S("khiri (lakhimpur)"), variations |-> << S("khiri"), S("lakhimpur"), <<2326, 2368, 2352, 2368>>, <<2354, 2326, 2368, 2350, 2346, 2369, 2352>> >>],
  [key |-> S("kushinagar"), variations |-> << S("kushinagar"), <<2325, 2369, 2358, 2368, 2344, 2327, 2352>> >>],
  [key |-> S("lucknow"), variations |-> << S("lucknow"), <<2354, 2326, 2344, 2314>> >>],
  [key |-> S("maharajganj"), variations |-> << S("maharajganj"), <<2350, 2361, 2352, 2366, 2332, 2327, 2306, 2332>> >>],
  [key |-> S("mainpuri"), variations |-> << S("mainpuri"), <<2350, 2376, 2344, 2346, 2369, 2352, 2368>> >>],
  [key |-> S("meerut"), variations |-> << S("meerut"), <<2350, 2375, 2352, 2336>> >>],
  [key |-> S("mirzapur"), variations |-> << S("mirzapur"), <<2350, 2367, 2352, 2381, 2332, 2366, 2346, 2369, 2352>> >>],
  [key |-> S("pillibhit"), variations |-> << S("pillibhit"), S("pilibhit"), <<2346, 2368, 2354, 2368, 2349, 2368, 2340>> >>],
  [key |-> S("pratapgarh"), variations |-> << S("pratapgarh"), <<2346, 2381, 2352, 2340, 2366, 2346, 2327, 2338, 2364>> >>],
  [key |-> S("prayagraj"), variations |-> << S("prayagraj"), S("allahabad"), <<2346, 2381, 2352, 2351, 2366, 2327, 2352, 2366, 2332>>, <<2311, 2354, 2366, 2361, 2366, 2348, 2366, 2342>> >>],
  [key |-> S("raebarelli"), variations |-> << S("raebarelli"), S("raebareli"), <<2352, 2366, 2351, 2348, 2352, 2375, 2354, 2368>> >>],
  [key |-> S("rampur"), variations |-> << S("rampur"), <<2352, 2366, 2350, 2346, 2369, 2352>> >>],
  [key |-> S("saharanpur"), variations |-> << S("saharanpur"), <<2360, 2361, 2366, 2352, 2344, 2346, 2369, 2352>> >>],
  [key |-> S("sambhal"), variations |-> << S("sambhal"), <<2360, 2350, 2381, 2349, 2354>> >>],
  [key |-> S("sant kabir nagar"), variations |-> << S("sant kabir nagar"), <<2360, 2306, 2340>> \o S(" ") \o <<2325, 2348, 2368, 2352>> \o S(" ") \o <<2344, 2327, 2352>> >>],
  [key |-> S("shahjahanpur"), variations |-> << S("shahjahanpur"), <<2358, 2366, 2361, 2332, 2361, 2366, 2306, 2346, 2369, 2352>> >>],
  [key |-> S("shamli"), variations |-> << S("shamli"), <<2358, 2366, 2350, 2354, 2368>> >>],
  [key |-> S("shravasti"), variations |-> << S("shravasti"), <<2358, 2381, 2352, 2366, 2357, 2360, 2381, 2340, 2368>> >>],
  [key |-> S("siddharth nagar"), variations |-> << S("siddharth nagar"), <<2360, 2367, 2342, 2381, 2343, 2366, 2352, 2381, 2341, 2344, 2327, 2352>> >>],
  [key |-> S("sitapur"), variations |-> << S("sitapur"), <<2360, 2368, 2340, 2366, 2346, 2369, 2352>> >>],
  [key |-> S("unnao"), variations |-> << S("unnao"), <<2313, 2344, 2381, 2344, 2366, 2357>> >>],
  [key |-> S("chittor"), variations |-> << S("chittor"), S("chittoor"), <<2330, 2367, 2340, 2381, 2340, 2370, 2352>> >>],
  [key |-> S("krishna"), variations |-> << S("krishna"), <<2325, 2371, 2359, 2381, 2339, 2366>> >>],
  [key |-> S("kurnool"), variations |-> << S("kurnool"), <<2325, 2369, 2352, 2381, 2344, 2370, 2354>> >>],
  [key |-> S("nellore"), variations |-> << S("nellore"), <<2344, 2375, 2354, 2381, 2354, 2379, 2352>> >>],
  [key |-> S("bhojpur"), variations |-> << S("bhojpur"), <<2349, 2379, 2332, 2346, 2369, 2352>> >>],
  [key |-> S("balodabazar"), variations |-> << S("balodabazar"), <<2348, 2366, 2354, 2379, 2342, 2366, 2348, 2366, 2332, 2366, 2352>> >>],
  [key |-> S("bilaspur"), variations |-> << S("bilaspur"), <<2348, 2367, 2354, 2366, 2360, 2346, 2369, 2352>> >>],
  [key |-> S("dhamtari"), variations |-> << S("dhamtari"), <<2343, 2350, 2340, 2352, 2368>> >>],
  [key |-> S("janjgir"), variations |-> << S("janjgir"), <<2332, 2366, 2306, 2332, 2327, 2368, 2352>> >>],
  [key |-> S("kanker"), variations |-> << S("kanker"), <<2325, 2366, 2306, 2325, 2375, 2352>> >>],
  [key |-> S("kondagaon"), variations |-> << S("kondagaon"), <<2325, 2379, 2306, 2337, 2366, 2327, 2366, 2306, 2357>> >>],
  [key |-> S("mahasamund"), variations |-> << S("mahasamund"), <<2350, 2361, 2366, 2360, 2350, 2369, 2306, 2342>> >>],
  [key |-> S("raigarh"), variations |-> << S("raigarh"), <<2352, 2366, 2351, 2327, 2338, 2364>> >>],
  [key |-> S("rajnandgaon"), variations |-> << S("rajnandgaon"), <<2352, 2366, 2332, 2344, 2366, 2306, 2342, 2327, 2366, 2306, 2357>> >>],
  [key |-> S("ahmedabad"), variations |-> << S("ahmedabad"), <<2309, 2361, 2350, 2342, 2366, 2348, 2366, 2342>> >>],
  [key |-> S("amreli"), variations |-> << S("amreli"), <<2309, 2350, 2352, 2375, 2354, 2368>> >>],
  [key |-> S("anand"), variations |-> << S("anand"), <<2310, 2344, 2306, 2342>> >>],
  [key |-> S("banaskanth"), variations |-> << S("banaskanth"), <<2348, 2344, 2366, 2360, 2325, 2366, 2306, 2336, 2366>> >>],
  [key |-> S("bharuch"), variations |-> << S("bharuch"), <<2349, 2352, 2370, 2330>> >>],
  [key |-> S("bhavnagar"), variations |-> << S("bhavnagar"), <<2349, 2366, 2357, 2344, 2327, 2352>> >>],
  [key |-> S("botad"), variations |-> << S("botad"), <<2348, 2379, 2335, 2366, 2342>> >>],
  [key |-> S("dahod"), variations |-> << S("dahod"), <<2342, 2366, 2361, 2379, 2342>> >>],
  [key |-> S("gandhinagar"), variations |-> << S("gandhinagar"), <<2327, 2366, 2306, 2343, 2368, 2344, 2327, 2352>> >>],
  [key |-> S("gir somnath"), variations |-> << S("gir somnath"), <<2327, 2367, 2352>> \o S(" ") \o <<2360, 2379, 2350, 2344, 2366, 2341>> >>],
  [key |-> S("jamnagar"), variations |-> << S("jamnagar"), <<2332, 2366, 2350, 2344, 2327, 2352>> >>],
  [key |-> S("junagarh"), variations |-> << S("junagarh"), <<2332, 2370, 2344, 2366, 2327, 2338, 2364>> >>],
  [key |-> S("kachchh"), variations |-> << S("kachchh"), S("kutch"), <<2325, 2330, 2381, 2331>> >>],
  [key |-> S("kheda"), variations |-> << S("kheda"), <<2326, 2375, 2337, 2364, 2366>> >>],
  [key |-> S("mehsana"), variations |-> << S("mehsana"), <<2350, 2375, 2361, 2360, 2366, 2339, 2366>> >>],
  [key |-> S("morbi"), variations |-> << S("morbi"), <<2350, 2379, 2352, 2348, 2368>> >>],
  [key |-> S("narmada"), variations |-> << S("narmada"), <<2344, 2352, 2381, 2350, 2342, 2366>> >>],
  [key |-> S("navsari"), variations |-> << S("navsari"), <<2344, 2357, 2360, 2366, 2352, 2368>> >>],
  [key |-> S("patan"), variations |-> << S("patan"), <<2346, 2366, 2335, 2344>> >>],
  [key |-> S("porbandar"), variations |-> << S("porbandar"), <<2346, 2379, 2352, 2348, 2306, 2342, 2352>> >>],
  [key |-> S("rajkot"), variations |-> << S("rajkot"), <<2352, 2366, 2332, 2325, 2379, 2335>> >>],
  [key |-> S("sabarkantha"), variations |-> << S("sabarkantha"), <<2360, 2366, 2348, 2352, 2325, 2366, 2306, 2336, 2366>> >>],
  [key |-> S("surat"), variations |-> << S("surat"), <<2360, 2370, 2352, 2340>> >>],
  [key |-> S("surendranagar"), variations |-> << S("surendranagar"), <<2360, 2369, 2352, 2375, 2306, 2342, 2381, 2352, 2344, 2327, 2352>> >>],
  [key |-> S("ambala"), variations |-> << S("ambala"), <<2309, 2306, 2348, 2366, 2354, 2366>> >>],
  [key |-> S("bhiwani"), variations |-> << S("bhiwani"), <<2349, 2367, 2357, 2366, 2344, 2368>> >>],
  [key |-> S("faridabad"), variations |-> << S("faridabad"), <<2347, 2352, 2368, 2342, 2366, 2348, 2366, 2342>> >>],
  [key |-> S("fatehabad"), variations |-> << S("fatehabad"), <<2347, 2340, 2375, 2361, 2366, 2348, 2366, 2342>> >>],
  [key |-> S("gurgaon"), variations |-> << S("gurgaon"), S("gurugram"), <<2327, 2369, 2337, 2364, 2327, 2366, 2306, 2357>> >>],
  [key |-> S("hissar"), variations |-> << S("hissar"), S("hisar"), <<2361, 2367, 2360, 2366, 2352>> >>],
  [key |-> S("jhajar"), variations |-> << S("jhajar"), <<2333, 2332, 2381, 2332, 2352>> >>],
  [key |-> S("jind"), variations |-> << S("jind"), <<2332, 2368, 2306, 2342>> >>],
  [key |-> S("kaithal"), variations |-> << S("kaithal"), <<2325, 2376, 2341, 2354>> >>],
  [key |-> S("karnal"), variations |-> << S("karnal"), <<2325, 2352, 2344, 2366, 2354>> >>],
  [key |-> S("kurukshetra"), variations |-> << S("kurukshetra"), <<2325, 2369, 2352, 2369, 2325, 2381, 2359, 2375, 2340, 2381, 2352>> >>],
  [key |-> S("mahendragarh-narnaul"), variations |-> << S("mahendragarh"), S("narnaul"), <<2350, 2361, 2375, 2306, 2342, 2381, 2352, 2327, 2338, 2364>> >>],
  [key |-> S("mewat"), variations |-> << S("mewat"), <<2350, 2375, 2357, 2366, 2340>> >>],
  [key |-> S("panchkula"), variations |-> << S("panchkula"), <<2346, 2306, 2330, 2325, 2369, 2354, 2366>> >>],
  [key |-> S("panipat"), variations |-> << S("panipat"), <<2346, 2366, 2344, 2368, 2346, 2340>> >>],
  [key |-> S("rewari"), variations |-> << S("rewari"), <<2352, 2375, 2357, 2366, 2337, 2364, 2368>> >>],
  [key |-> S("rohtak"), variations |-> << S("rohtak"), <<2352, 2379, 2361, 2340, 2325>> >>],
  [key |-> S("sirsa"), variations |-> << S("sirsa"), <<2360, 2367, 2352, 2360, 2366>> >>],
  [key |-> S("sonipat"), variations |-> << S("sonipat"), <<2360, 2379, 2344, 2368, 2346, 2340>> >>],
  [key |-> S("yamuna nagar"), variations |-> << S("yamuna nagar"), <<2351, 2350, 2369, 2344, 2366, 2344, 2327, 2352>> >>],
  [key |-> S("chamba"), variations |-> << S("chamba"), <<2330, 2306, 2348, 2366>> >>],
  [key |-> S("hamirpur"), variations |-> << S("hamirpur"), <<2361, 2350, 2368, 2352, 2346, 2369, 2352>> >>],
  [key |-> S("kangra"), variations |-> << S("kangra"), <<2325, 2366, 2306, 2327, 2337, 2364, 2366>> >>],
  [key |-> S("kullu"), variations |-> << S("kullu"), <<2325, 2369, 2354, 2381, 2354, 2370>> >>],
  [key |-> S("mandi"), variations |-> << S("mandi"), <<2350, 2306, 2337, 2368>> >>],
  [key |-> S("shimla"), variations |-> << S("shimla"), <<2358, 2367, 2350, 2354, 2366>> >>],
  [key |-> S("sirmore"), variations |-> << S("sirmore"), <<2360, 2367, 2352, 2350, 2380, 2352>> >>],
  [key |-> S("solan"), variations |-> << S("solan"), <<2360, 2379, 2354, 2344>> >>],
  [key |-> S("una"), variations |-> << S("una"), <<2314, 2344, 2366>> >>],
  [key |-> S("badgam"), variations |-> << S("badgam"), <<2348, 2337, 2327, 2366, 2350>> >>],
  [key |-> S("kathua"), variations |-> << S("kathua"), <<2325, 2336, 2369, 2310>> >>],
  [key |-> S("rajouri"), variations |-> << S("rajouri"), <<2352, 2366, 2332, 2380, 2352, 2368>> >>],
  [key |-> S("bangalore"), variations |-> << S("bangalore"), S("bengaluru"), <<2348, 2376, 2306, 2327, 2354, 2379, 2352>>, <<2348, 2375, 2306, 2327, 2354, 2369, 2352, 2369>> >>],
  [key |-> S("bellary"), variations |-> << S("bellary"), <<2348, 2375, 2354, 2381, 2354, 2366, 2352, 2368>> >>],
  [key |-> S("chamrajnagar"), variations |-> << S("chamrajnagar"), <<2330, 2366, 2350, 2352, 2366, 2332, 2344, 2327, 2352>> >>],
  [key |-> S("chikmagalur"), variations |-> << S("chikmagalur"), <<2330, 2367, 2325, 2350, 2327, 2354, 2370, 2352>> >>],
  [key |-> S("chitradurga"), variations |-> << S("chitradurga"), <<2330, 2367, 2340, 2381, 2352, 2342, 2369, 2352, 2381, 2327>> >>],
  [key |-> S("davangere"), variations |-> << S("davangere"), <<2342, 2366, 2357, 2339, 2327, 2375, 2352, 2375>> >>],
  [key |-> S("dharwad"), variations |-> << S("dharwad"), <<2343, 2366, 2352, 2357, 2366, 2337, 2364>> >>],
  [key |-> S("kalburgi"), variations |-> << S("kalburgi"), S("gulbarga"), <<2325, 2354, 2348, 2369, 2352, 2381, 2327, 2368>> >>],
  [key |-> S("karwar(uttar kannad)"), variations |-> << S("karwar"), S("uttar kannad"), <<2325, 2366, 2352, 2357, 2366, 2352>> >>],
  [key |-> S("kolar"), variations |-> << S("kolar"), <<2325, 2379, 2354, 2366, 2352>> >>],
  [key |-> S("koppal"), variations |-> << S("koppal"), <<2325, 2379, 2346, 2381, 2346, 2354>> >>],
  [key |-> S("mangalore(dakshin kannad)"), variations |-> << S("mangalore"), S("dakshin kannad"), <<2350, 2306, 2327, 2354, 2380, 2352>> >>],
  [key |-> S("mysore"), variations |-> << S("mysore"), S("mysuru"), <<2350, 2376, 2360, 2370, 2352>> >>],
  [key |-> S("shimoga"), variations |-> << S("shimoga"), <<2358, 2367, 2357, 2350, 2379, 2327, 2381, 2327, 2366>> >>],
  [key |-> S("tumkur"), variations |-> << S("tumkur"), <<2340, 2369, 2350, 2325, 2369, 2352>> >>],
  [key |-> S("alappuzha"), variations |-> << S("alappuzha"), <<2309, 2354, 2366, 2346, 2381, 2346, 2369, 2333, 2366>> >>],
  [key |-> S("ernakulam"), variations |-> << S("ernakulam"), <<2319, 2352, 2381, 2344, 2366, 2325, 2369, 2354, 2350>> >>],
  [key |-> S("idukki"), variations |-> << S("idukki"), <<2311, 2337, 2369, 2325, 2381, 2325, 2368>> >>],
  [key |-> S("kannur"), variations |-> << S("kannur"), <<2325, 2344, 2381, 2344, 2370, 2352>> >>],
  [key |-> S("kasargod"), variations |-> << S("kasargod"), <<2325, 2366, 2360, 2352, 2327, 2379, 2337>> >>],
  [key |-> S("kollam"), variations |-> << S("kollam"), <<2325, 2379, 2354, 2381, 2354, 2350>> >>],
  [key |-> S("kottayam"), variations |-> << S("kottayam"), <<2325, 2379, 2335, 2381, 2335, 2366, 2351, 2350>> >>],
  [key |-> S("kozhikode(calicut)"), variations |-> << S("kozhikode"), S("calicut"), <<2325, 2379, 2333, 2367, 2325, 2379, 2337>> >>],
  [key |-> S("malappuram"), variations |-> << S("malappuram"), <<2350, 2354, 2346, 2381, 2346, 2369, 2352, 2350>> >>],
  [key |-> S("palakad"), variations |-> << S("palakad"), <<2346, 2366, 2354, 2325, 2381, 2325, 2337, 2364>> >>],
  [key |-> S("pathanamthitta"), variations |-> << S("pathanamthitta"), <<2346, 2340, 2381, 2340, 2344, 2306, 2340, 2367, 2335, 2381, 2335, 2366>> >>],
  [key |-> S("thirssur"), variations |-> << S("thirssur"), S("thrissur"), <<2340, 2381, 2352, 2367, 2358, 2370, 2352>> >>],
  [key |-> S("thiruvananthapuram"), variations |-> << S("thiruvananthapuram"), <<2340, 2367, 2352, 2369, 2357, 2344, 2306, 2340, 2346, 2369, 2352, 2350>> >>],
  [key |-> S("wayanad"), variations |-> << S("wayanad"), <<2357, 2366, 2351, 2344, 2366, 2337>> >>],
  [key |-> S("patna"), variations |-> << S("patna"), <<2346, 2335, 2344, 2366>> >>],
  [key |-> S("pune"), variations |-> << S("pune"), <<2346, 2369, 2339, 2375>> >>],
  [key |-> S("mumbai"), variations |-> << S("mumbai"), S("bombay"), <<2350, 2369, 2306, 2348, 2312>> >>],
  [key |-> S("kolkata"), variations |-> << S("kolkata"), S("calcutta"), <<2325, 2379, 2354, 2325, 2366, 2340, 2366>> >>]
  >>

\* variety_map of extract_entities, src/assistantV4/assistantV4_b.py:619-711 (declared key order, variants in order)
variety_map_V4b ==
  <<
  [key |-> S("hybrid"), variations |-> << S("hybrid"), <<2361, 2366, 2311, 2348, 2381, 2352, 2367, 2337>> >>],
  [key |-> S("achhu"), variations |-> << S("achhu"), <<2310, 2330, 2381, 2331, 2370>> >>],
  [key |-> S("bpt"), variations |-> << S("b p t"), S("bpt"), <<2348, 2368, 2346, 2368, 2335, 2368>> >>],
  [key |-> S("sona"), variations |-> << S("sona"), <<2360, 2379, 2344, 2366>> >>],
  [key |-> S("local"), variations |-> << S("local"), <<2360, 2381, 2341, 2366, 2344, 2368, 2351>>, S("local (whole)") >>],
  [key |-> S("jyoti"), variations |-> << S("jyoti"), <<2332, 2381, 2351, 2379, 2340, 2367>> >>],
  [key |-> S("desi"), variations |-> << S("desi"), S("desi (whole)"), S("deshi") >>],
  [key |-> S("other"), variations |-> << S("other") >>],
  [key |-> S("faq"), variations |-> << S("faq"), S("f.a.q.") >>],
  [key |-> S("non-faq"), variations |-> << S("non-faq") >>],
  [key |-> S("i.r. 36"), variations |-> << S("i.r. 36") >>],
  [key |-> S("d.b."), variations |-> << S("d.b.") >>],
  [key |-> S("i.r. 64"), variations |-> << S("i.r. 64") >>],
  [key |-> S("1001"), variations |-> << S("1001") >>],
  [key |-> S("mtu-1010"), variations |-> << S("mtu-1010") >>],
  [key |-> S("soyabeen"), variations |-> << S("soyabeen") >>],
  [key |-> S("capsicum"), variations |-> << S("capsicum") >>],
  [key |-> S("ajwan"), variations |-> << S("ajwan") >>],
  [key |-> S("mustard"), variations |-> << S("mustard"), S("mustard oil") >>],
  [key |-> S("castor seed"), variations |-> << S("castor seed") >>],
  [key |-> S("lokwan"), variations |-> << S("lokwan") >>],
  [key |-> S("bhindi"), variations |-> << S("bhindi") >>],
  [key |-> S("cabbage"), variations |-> << S("cabbage") >>],
  [key |-> S("coriander"), variations |-> << S("coriander") >>],
  [key |-> S("green ginger"), variations |-> << S("green ginger") >>],
  [key |-> S("777 new ind"), variations |-> << S("777 new ind") >>],
  [key |-> S("cummin seed(jeera)"), variations |-> << S("cummin seed(jeera)") >>],
  [key |-> S("white"), variations |-> << S("white") >>],
  [key |-> S("amruthapani"), variations |-> << S("amruthapani") >>],
  [key |-> S("bitter gourd"), variations |-> << S("bitter gourd") >>],
  [key |-> S("cauliflower"), variations |-> << S("cauliflower") >>],
  [key |-> S("cucumbar"), variations |-> << S("cucumbar") >>],
  [key |-> S("green chilly"), variations |-> << S("green chilly") >>],
  [key |-> S("tomato"), variations |-> << S("tomato") >>],
  [key |-> S("bold"), variations |-> << S("bold") >>],
  [key |-> S("red"), variations |-> << S("red") >>],
  [key |-> S("yellow"), variations |-> << S("yellow") >>],
  [key |-> S("paddy fine"), variations |-> << S("paddy fine") >>],
  [key |-> S("bottle gourd"), variations |-> << S("bottle gourd") >>],
  [key |-> S("carrot"), variations |-> << S("carrot") >>],
  [key |-> S("mint(pudina)"), variations |-> << S("mint(pudina)") >>],
  [key |-> S("brinjal"), variations |-> << S("brinjal") >>],
  [key |-> S("kabul"), variations |-> << S("kabul") >>],
  [key |-> S("lemon"), variations |-> << S("lemon") >>],
  [key |-> S("methiseeds"), variations |-> << S("methiseeds") >>],
  [key |-> S("ground nut seed"), variations |-> << S("ground nut seed") >>],
  [key |-> S("nasik"), variations |-> << S("nasik") >>],
  [key |-> S("arkasheela mattigulla"), variations |-> << S("arkasheela mattigulla") >>],
  [key |-> S("(red nanital)"), variations |-> << S("(red nanital)") >>],
  [key |-> S("african sarson"), variations |-> << S("african sarson") >>],
  [key |-> S("gwar"), variations |-> << S("gwar") >>],
  [key |-> S("pumpkin"), variations |-> << S("pumpkin") >>],
  [key |-> S("colacasia"), variations |-> << S("colacasia") >>],
  [key |-> S("mousambi"), variations |-> << S("mousambi") >>],
  [key |-> S("green peas"), variations |-> << S("green peas") >>],
  [key |-> S("long melon (kakri)"), variations |-> << S("long melon (kakri)") >>],
  [key |-> S("dara"), variations |-> << S("dara") >>],
  [key |-> S("sarson(black)"), variations |-> << S("sarson(black)") >>],
  [key |-> S("kasmir/shimla - ii"), variations |-> << S("kasmir/shimla - ii") >>],
  [key |-> S("round/long"), variations |-> << S("round/long") >>],
  [key |-> S("round"), variations |-> << S("round") >>],
  [key |-> S("ghee"), variations |-> << S("ghee") >>],
  [key |-> S("masoor gola"), variations |-> << S("masoor gola") >>],
  [key |-> S("sponge gourd"), variations |-> << S("sponge gourd") >>],
  [key |-> S("banana - ripe"), variations |-> << S("banana - ripe") >>],
  [key |-> S("black gram dal"), variations |-> << S("black gram dal") >>],
  [key |-> S("pointed gourd (parval)"), variations |-> << S("pointed gourd (parval)") >>],
  [key |-> S("pomogranate"), variations |-> << S("pomogranate") >>],
  [key |-> S("delicious"), variations |-> << S("delicious") >>],
  [key |-> S("papaya"), variations |-> << S("papaya") >>],
  [key |-> S("average"), variations |-> << S("average") >>],
  [key |-> S("lohi black"), variations |-> << S("lohi black") >>],
  [key |-> S("iii"), variations |-> << S("iii") >>],
  [key |-> S("arhar dal(tur)"), variations |-> << S("arhar dal(tur)") >>],
  [key |-> S("masur dal"), variations |-> << S("masur dal") >>],
  [key |-> S("average (whole)"), variations |-> << S("average (whole)") >>],
  [key |-> S("white peas"), variations |-> << S("white peas") >>],
  [key |-> S("kala masoor new"), variations |-> << S("kala masoor new") >>],
  [key |-> S("banana - green"), variations |-> << S("banana - green") >>],
  [key |-> S("lime"), variations |-> << S("lime") >>],
  [key |-> S("pathari"), variations |-> << S("pathari") >>],
  [key |-> S("basmati 1509"), variations |-> << S("basmati 1509") >>],
  [key |-> S("linseed"), variations |-> << S("linseed") >>],
  [key |-> S("common"), variations |-> << S("common") >>],
  [key |-> S("peas(dry)"), variations |-> << S("peas(dry)") >>],
  [key |-> S("raddish"), variations |-> << S("raddish") >>],
  [key |-> S("jowar ( white)"), variations |-> << S("jowar ( white)") >>],
  [key |-> S("badshah"), variations |-> << S("badshah") >>],
  [key |-> S("khandsari"), variations |-> << S("khandsari") >>],
  [key |-> S("basumathi"), variations |-> << S("basumathi") >>],
  [key |-> S("eucalyptus"), variations |-> << S("eucalyptus") >>]
  >>

\* hindi_price_words of classify_intent_rule_based, src/assistantV4/assistantV4_b.py:291
hindi_price_words_V4b ==
  << <<2349, 2366, 2357>>, <<2350, 2370, 2354, 2381, 2351>>, <<2342, 2352>>, <<2325, 2368, 2350, 2340>>, <<2354, 2366, 2327, 2340>>, <<2348, 2366, 2332, 2366, 2352>>, <<2350, 2306, 2337, 2368>>, S("bhav"), S("mulya"), S("keemat"), S("dar") >>

\* hindi_weather_words of classify_intent_rule_based, src/assistantV4/assistantV4_b.py:292
hindi_weather_words_V4b ==
  << <<2350, 2380, 2360, 2350>>, <<2348, 2366, 2352, 2367, 2358>>, <<2340, 2366, 2346, 2350, 2366, 2344>>, <<2357, 2352, 2381, 2359, 2366>>, <<2327, 2352, 2381, 2350, 2368>>, <<2360, 2352, 2381, 2342, 2368>>, <<2310, 2352, 2381, 2342, 2381, 2352, 2340, 2366>>, S("mausam"), S("barish"), S("temperature"), S("varsha") >>

\* hindi_advice_words of classify_intent_rule_based, src/assistantV4/assistantV4_b.py:293
hindi_advice_words_V4b ==
  << <<2352, 2379, 2327>>, <<2325, 2368, 2335>>, <<2360, 2350, 2360, 2381, 2351, 2366>>, <<2360, 2354, 2366, 2361>>, <<2313, 2346, 2366, 2351>>, <<2332, 2366, 2344, 2325, 2366, 2352, 2368>>, <<2313, 2346, 2330, 2366, 2352>>, <<2348, 2368, 2350, 2366, 2352, 2368>>, S("rog"), S("keet"), S("samasya"), S("salah"), S("upay") >>

\* hindi_greeting_words of classify_intent_rule_based, src/assistantV4/assistantV4_b.py:294
hindi_greeting_words_V4b ==
  << <<2344, 2350, 2360, 2381, 2340, 2375>>, <<2361, 2376, 2354, 2379>>, <<2361, 2366, 2351>>, <<2325, 2376, 2360, 2375>>, <<2343, 2344, 2381, 2351, 2357, 2366, 2342>>, <<2358, 2369, 2325, 2381, 2352, 2367, 2351, 2366>>, S("namaste"), S("hello"), S("hi"), S("kaise"), S("dhanyavad") >>

\* hindi_variety_words of classify_intent_rule_based, src/assistantV4/assistantV4_b.py:295
hindi_variety_words_V4b ==
  << <<2325, 2367, 2360, 2381, 2350>>, <<2346, 2381, 2352, 2332, 2366, 2340, 2367>>, <<2357, 2376, 2352, 2366, 2351, 2335, 2368>>, <<2348, 2368, 2332>>, S("kism"), S("prajati"), S("variety"), S("beej") >>

\* hindi_market_words of classify_intent_rule_based, src/assistantV4/assistantV4_b.py:296
hindi_market_words_V4b ==
  << <<2348, 2366, 2332, 2366, 2352>>, <<2350, 2306, 2337, 2368>>, <<2348, 2367, 2325, 2381, 2352, 2368>>, <<2326, 2352, 2368, 2342>>, S("bazaar"), S("mandi"), S("bikri"), S("kharid") >>

\* hindi_roman_words of detect_language, src/assistantV4/assistantV4_b.py:343-346
hindi_roman_words_V4b ==
  << S("ka"), S("ki"), S("ke"), S("mein"), S("batao"), S("kya"), S("hai"), S("hain"), S("chahiye"), S("bhav"), S("mausam"), S("salah"), S("rog"), S("keet"), S("samasya"), S("kichad"), S("pani"), S("baarish"), S("garmi"), S("sardi"), S("kheti"), S("kaise"), S("karen"), S("kisan"), S("fasal"), S("bij"), S("paudha"), S("khad"), S("paani") >>

\* english_price_words of classify_intent_rule_based, src/assistantV5.py:294 (the same list in both files)
english_price_words ==
  << S("price"), S("cost"), S("rate"), S("bhav"), S("market"), S("mandi") >>

\* english_weather_words of classify_intent_rule_based, src/assistantV5.py:295 (the same list in both files)
english_weather_words ==
  << S("weather"), S("rain"), S("temperature"), S("forecast"), S("humidity"), S("hot"), S("cold") >>

\* english_advice_words of classify_intent_rule_based, src/assistantV5.py:296 (the same list in both files)
english_advice_words ==
  << S("disease"), S("pest"), S("problem"), S("advice"), S("help"), S("treatment"), S("solution") >>

\* english_greeting_words of classify_intent_rule_based, src/assistantV5.py:297 (the same list in both files)
english_greeting_words ==
  << S("hello"), S("hi"), S("hey"), S("howdy"), S("thanks"), S("thank") >>

\* english_variety_words of classify_intent_rule_based, src/assistantV5.py:298 (the same list in both files)
english_variety_words ==
  << S("variety"), S("type"), S("seed"), S("species") >>

\* english_market_words of classify_intent_rule_based, src/assistantV5.py:299 (the same list in both files)
english_market_words ==
  << S("market"), S("mandi"), S("sell"), S("buy") >>

\* mandi_data of create_default_data_files, src/assistantV5.py:100-108: header row, then the default rows
default_mandi_data ==
  <<
    << S("State"), S("District"), S("Market"), S("Commodity"), S("Variety"), S("Grade"), S("Arrival Date"), S("Min Price"), S("Max Price"), S("Modal Price") >>,
    << S("Andhra Pradesh"), S("Chittor"), S("Punganur"), S("Tomato"), S("Hybrid"), S("FAQ"), S("10-09-2025"), S("1000"), S("1400"), S("1200") >>,
    << S("Andhra Pradesh"), S("Chittor"), S("Vepanjari"), S("Gur(Jaggery)"), S("Achhu"), S("FAQ"), S("10-09-2025"), S("2500"), S("3000"), S("2700") >>,
    << S("Andhra Pradesh"), S("Krishna"), S("Divi"), S("Paddy(Dhan)(Common)"), S("B P T"), S("FAQ"), S("10-09-2025"), S("2300"), S("2400"), S("2350") >>,
    << S("Bihar"), S("Bhojpur"), S("Aarah"), S("Potato"), S("Jyoti"), S("FAQ"), S("10-09-2025"), S("2000"), S("2200"), S("2100") >>,
    << S("Chandigarh"), S("Chandigarh"), S("Chandigarh(Grain/Fruit)"), S("Cucumbar(Kheera)"), S("Other"), S("FAQ"), S("10-09-2025"), S("2000"), S("4500"), S("3300") >>,
    << S("Chandigarh"), S("Chandigarh"), S("Chandigarh(Grain/Fruit)"), S("Green Chilli"), S("Other"), S("FAQ"), S("10-09-2025"), S("2000"), S("3500"), S("2800") >>
  >>

\* weather_data of create_default_data_files, src/assistantV5.py:113-121: header row, then the default rows
default_weather_data ==
  <<
    << S("location"), S("condition"), S("temperature"), S("humidity"), S("rainfall"), S("forecast") >>,
    << S("patna"), S("Sunny"), S("32"), S("65"), S("0"), S("Partly cloudy tomorrow") >>,
    << S("delhi"), S("Partly cloudy"), S("35"), S("60"), S("0"), S("Light rain expected") >>,
    << S("pune"), S("Cloudy"), S("28"), S("75"), S("10"), S("Heavy rain warning") >>,
    << S("bangalore"), S("Rainy"), S("26"), S("85"), S("25"), S("Continuing rain") >>,
    << S("chittor"), S("Hot"), S("38"), S("45"), S("0"), S("Clear skies") >>,
    << S("krishna"), S("Humid"), S("34"), S("80"), S("5"), S("Possible showers") >>
  >>

\* advice_data of create_default_data_files, src/assistantV5.py:126-132: header row, then the default rows
default_advice_data ==
  <<
    << S("crop"), S("season"), S("soil_type"), S("advice_english"), S("advice_hindi") >>,
    << S("wheat"), S("winter"), S("loamy"), S("Ensure proper irrigation and use nitrogen-based fertilizers during growth."), <<2357, 2371, 2342, 2381, 2343, 2367>> \o S(" ") \o <<2325, 2375>> \o S(" ") \o <<2342, 2380, 2352, 2366, 2344>> \o S(" ") \o <<2313, 2330, 2367, 2340>> \o S(" ") \o <<2360, 2367, 2306, 2330, 2366, 2312>> \o S(" ") \o <<2360, 2369, 2344, 2367, 2358, 2381, 2330, 2367, 2340>> \o S(" ") \o <<2325, 2352, 2375, 2306>> \o S(" ") \o <<2324, 2352>> \o S(" ") \o <<2344, 2366, 2311, 2335, 2381, 2352, 2379, 2332, 2344>> \o S(" ") \o <<2310, 2343, 2366, 2352, 2367, 2340>> \o S(" ") \o <<2313, 2352, 2381, 2357, 2352, 2325, 2379, 2306>> \o S(" ") \o <<2325, 2366>> \o S(" ") \o <<2313, 2346, 2351, 2379, 2327>> \o S(" ") \o <<2325, 2352, 2375, 2306, 2404>> >>,
    << S("rice"), S("monsoon"), S("clayey"), S("Maintain water level at 2-3 inches and control weeds regularly."), <<2346, 2366, 2344, 2368>> \o S(" ") \o <<2325, 2366>> \o S(" ") \o <<2360, 2381, 2340, 2352>> \o S(" 2-3 ") \o <<2311, 2306, 2330>> \o S(" ") \o <<2346, 2352>> \o S(" ") \o <<2348, 2344, 2366, 2319>> \o S(" ") \o <<2352, 2326, 2375, 2306>> \o S(" ") \o <<2324, 2352>> \o S(" ") \o <<2344, 2367, 2351, 2350, 2367, 2340>> \o S(" ") \o <<2352, 2370, 2346>> \o S(" ") \o <<2360, 2375>> \o S(" ") \o <<2326, 2352, 2346, 2340, 2357, 2366, 2352>> \o S(" ") \o <<2344, 2367, 2351, 2306, 2340, 2381, 2352, 2367, 2340>> \o S(" ") \o <<2325, 2352, 2375, 2306, 2404>> >>,
    << S("tomato"), S("summer"), S("well-drained"), S("Ensure proper drainage and rotate crops to prevent diseases."), <<2352, 2379, 2327, 2379, 2306>> \o S(" ") \o <<2325, 2379>> \o S(" ") \o <<2352, 2379, 2325, 2344, 2375>> \o S(" ") \o <<2325, 2375>> \o S(" ") \o <<2354, 2367, 2319>> \o S(" ") \o <<2313, 2330, 2367, 2340>> \o S(" ") \o <<2332, 2354>> \o S(" ") \o <<2344, 2367, 2325, 2366, 2360, 2368>> \o S(" ") \o <<2360, 2369, 2344, 2367, 2358, 2381, 2330, 2367, 2340>> \o S(" ") \o <<2325, 2352, 2375, 2306>> \o S(" ") \o <<2324, 2352>> \o S(" ") \o <<2347, 2360, 2354, 2379, 2306>> \o S(" ") \o <<2325, 2379>> \o S(" ") \o <<2328, 2369, 2350, 2366, 2319, 2306, 2404>> >>,
    << S("potato"), S("winter"), S("sandy loam"), S("Plant in well-drained soil and maintain consistent moisture."), <<2309, 2330, 2381, 2331, 2368>> \o S(" ") \o <<2340, 2352, 2361>> \o S(" ") \o <<2360, 2375>> \o S(" ") \o <<2360, 2370, 2326, 2366>> \o S(" ") \o <<2350, 2367, 2335, 2381, 2335, 2368>> \o S(" ") \o <<2350, 2375, 2306>> \o S(" ") \o <<2354, 2327, 2366, 2319, 2306>> \o S(" ") \o <<2324, 2352>> \o S(" ") \o <<2354, 2327, 2366, 2340, 2366, 2352>> \o S(" ") \o <<2344, 2350, 2368>> \o S(" ") \o <<2348, 2344, 2366, 2319>> \o S(" ") \o <<2352, 2326, 2375, 2306, 2404>> >>
  >>

\* localization_data of create_default_data_files, src/assistantV5.py:137-152: header row, then the default rows
default_localization_data ==
  <<
    << S("key"), S("english"), S("hindi") >>,
    << S("greeting"), S("Hello! How can I help you today?"), <<2344, 2350, 2360, 2381, 2340, 2375>> \o S("! ") \o <<2350, 2376, 2306>> \o S(" ") \o <<2310, 2346, 2325, 2368>> \o S(" ") \o <<2325, 2376, 2360, 2375>> \o S(" ") \o <<2350, 2342, 2342>> \o S(" ") \o <<2325, 2352>> \o S(" ") \o <<2360, 2325, 2340, 2366>> \o S(" ") \o <<2361, 2370, 2306>> \o S("?") >>,
    << S("price_not_found"), S("Sorry, I don't have price information for {crop} in {location}"), <<2325, 2381, 2359, 2350, 2366>> \o S(" ") \o <<2325, 2352, 2375, 2306>> \o S(", ") \o <<2350, 2375, 2352, 2375>> \o S(" ") \o <<2346, 2366, 2360>> \o S(" {location} ") \o <<2350, 2375, 2306>> \o S(" {crop} ") \o <<2325, 2368>> \o S(" ") \o <<2325, 2368, 2350, 2340>> \o S(" ") \o <<2325, 2368>> \o S(" ") \o <<2332, 2366, 2344, 2325, 2366, 2352, 2368>> \o S(" ") \o <<2344, 2361, 2368, 2306>> \o S(" ") \o <<2361, 2376>> >>,
    << S("weather_not_found"), S("Weather information not available for {location}"), S("{location} ") \o <<2325, 2375>> \o S(" ") \o <<2354, 2367, 2319>> \o S(" ") \o <<2350, 2380, 2360, 2350>> \o S(" ") \o <<2325, 2368>> \o S(" ") \o <<2332, 2366, 2344, 2325, 2366, 2352, 2368>> \o S(" ") \o <<2313, 2346, 2354, 2348, 2381, 2343>> \o S(" ") \o <<2344, 2361, 2368, 2306>> \o S(" ") \o <<2361, 2376>> >>,
    << S("advice_not_found"), S("No specific advice available for {crop}"), S("{crop} ") \o <<2325, 2375>> \o S(" ") \o <<2354, 2367, 2319>> \o S(" ") \o <<2325, 2379, 2312>> \o S(" ") \o <<2357, 2367, 2358, 2367, 2359, 2381, 2335>> \o S(" ") \o <<2360, 2354, 2366, 2361>> \o S(" ") \o <<2313, 2346, 2354, 2348, 2381, 2343>> \o S(" ") \o <<2344, 2361, 2368, 2306>> \o S(" ") \o <<2361, 2376>> >>,
    << S("missing_crop"), S("Please specify a crop"), <<2325, 2371, 2346, 2351, 2366>> \o S(" ") \o <<2319, 2325>> \o S(" ") \o <<2347, 2360, 2354>> \o S(" ") \o <<2344, 2367, 2352, 2381, 2342, 2367, 2359, 2381, 2335>> \o S(" ") \o <<2325, 2352, 2375, 2306>> >>,
    << S("missing_location"), S("Please specify a location"), <<2325, 2371, 2346, 2351, 2366>> \o S(" ") \o <<2319, 2325>> \o S(" ") \o <<2360, 2381, 2341, 2366, 2344>> \o S(" ") \o <<2344, 2367, 2352, 2381, 2342, 2367, 2359, 2381, 2335>> \o S(" ") \o <<2325, 2352, 2375, 2306>> >>,
    << S("goodbye"), S("Goodbye! Have a great day!"), <<2309, 2354, 2357, 2367, 2342, 2366>> \o S("! ") \o <<2310, 2346, 2325, 2366>> \o S(" ") \o <<2342, 2367, 2344>> \o S(" ") \o <<2358, 2369, 2349>> \o S(" ") \o <<2361, 2379>> \o S("!") >>,
    << S("error"), S("Sorry, I encountered an error. Please try again."), <<2325, 2381, 2359, 2350, 2366>> \o S(" ") \o <<2325, 2352, 2375, 2306>> \o S(", ") \o <<2319, 2325>> \o S(" ") \o <<2340, 2381, 2352, 2369, 2335, 2367>> \o S(" ") \o <<2361, 2369, 2312, 2404>> \o S(" ") \o <<2325, 2371, 2346, 2351, 2366>> \o S(" ") \o <<2346, 2369, 2344, 2307>> \o S(" ") \o <<2346, 2381, 2352, 2351, 2366, 2360>> \o S(" ") \o <<2325, 2352, 2375, 2306, 2404>> >>,
    << S("listening"), S("Listening..."), <<2360, 2369, 2344>> \o S(" ") \o <<2352, 2361, 2366>> \o S(" ") \o <<2361, 2370, 2305>> \o S("...") >>,
    << S("not_understood"), S("Sorry, I didn't understand that."), <<2325, 2381, 2359, 2350, 2366>> \o S(" ") \o <<2325, 2352, 2375, 2306>> \o S(", ") \o <<2350, 2376, 2306>> \o S(" ") \o <<2360, 2350, 2333, 2366>> \o S(" ") \o <<2344, 2361, 2368, 2306, 2404>> >>,
    << S("service_unavailable"), S("Sorry, speech service is unavailable."), <<2325, 2381, 2359, 2350, 2366>> \o S(" ") \o <<2325, 2352, 2375, 2306>> \o S(", ") \o <<2349, 2366, 2359, 2339>> \o S(" ") \o <<2360, 2375, 2357, 2366>> \o S(" ") \o <<2313, 2346, 2354, 2348, 2381, 2343>> \o S(" ") \o <<2344, 2361, 2368, 2306>> \o S(" ") \o <<2361, 2376, 2404>> >>,
    << S("no_speech"), S("No speech detected."), <<2325, 2379, 2312>> \o S(" ") \o <<2349, 2366, 2359, 2339>> \o S(" ") \o <<2344, 2361, 2368, 2306>> \o S(" ") \o <<2350, 2367, 2354, 2366, 2404>> >>,
    << S("help_prompt"), S("I can help with crop prices, weather information, and agricultural advice. What do you need?"), <<2350, 2376, 2306>> \o S(" ") \o <<2347, 2360, 2354>> \o S(" ") \o <<2325, 2368>> \o S(" ") \o <<2325, 2368, 2350, 2340, 2379, 2306>> \o S(", ") \o <<2350, 2380, 2360, 2350>> \o S(" ") \o <<2325, 2368>> \o S(" ") \o <<2332, 2366, 2344, 2325, 2366, 2352, 2368>> \o S(" ") \o <<2324, 2352>> \o S(" ") \o <<2325, 2371, 2359, 2367>> \o S(" ") \o <<2360, 2354, 2366, 2361>> \o S(" ") \o <<2350, 2375, 2306>> \o S(" ") \o <<2350, 2342, 2342>> \o S(" ") \o <<2325, 2352>> \o S(" ") \o <<2360, 2325, 2340, 2366>> \o S(" ") \o <<2361, 2370, 2306, 2404>> \o S(" ") \o <<2310, 2346, 2325, 2379>> \o S(" ") \o <<2325, 2381, 2351, 2366>> \o S(" ") \o <<2330, 2366, 2361, 2367, 2319>> \o S("?") >>
  >>

\* varieties_data of create_default_data_files, src/assistantV5.py:157-163: header row, then the default rows
default_varieties_data ==
  <<
    << S("crop"), S("variety"), S("characteristics"), S("yield"), S("duration") >>,
    << S("wheat"), S("HD 3086"), S("High yield, disease resistant"), S("5.5 t/ha"), S("120 days") >>,
    << S("rice"), S("Pusa Basmati"), S("Aromatic, long grain"), S("4.5 t/ha"), S("135 days") >>,
    << S("tomato"), S("Pusa Ruby"), S("High yield, firm fruit"), S("60 t/ha"), S("90 days") >>,
    << S("potato"), S("Kufri Jyoti"), S("High yield, disease resistant"), S("25 t/ha"), S("100 days") >>
  >>

\* market_data of create_default_data_files, src/assistantV5.py:168-176: header row, then the default rows
default_market_data ==
  <<
    << S("location"), S("market_name"), S("contact"), S("business_hours") >>,
    << S("patna"), S("Patna Grain Market"), S("0612-XXXXXX"), S("6 AM to 8 PM") >>,
    << S("delhi"), S("Azadpur Mandi"), S("011-XXXXXX"), S("24 hours") >>,
    << S("pune"), S("Market Yard"), S("020-XXXXXX"), S("5 AM to 9 PM") >>,
    << S("bangalore"), S("K.R. Market"), S("080-XXXXXX"), S("6 AM to 10 PM") >>,
    << S("chittor"), S("Chittor Mandi"), S("08572-XXXXX"), S("5 AM to 7 PM") >>,
    << S("krishna"), S("Krishna Market"), S("0866-XXXXXX"), S("6 AM to 8 PM") >>
  >>

\* self.crop_name_mapping, src/assistantV5.py:59-77: crop key -> commodity name of the price table
crop_name_mapping ==
  <<
    << S("wheat"), S("Wheat") >>,
    << S("rice"), S("Rice") >>,
    << S("tomato"), S("Tomato") >>,
    << S("potato"), S("Potato") >>,
    << S("paddy"), S("Paddy(Dhan)(Common)") >>,
    << S("tur"), S("Arhar (Tur/Red Gram)(Whole)") >>,
    << S("gram"), S("Bengal Gram(Gram)(Whole)") >>,
    << S("urd"), S("Black Gram (Urd Beans)(Whole)") >>,
    << S("millet"), S("Foxtail Millet(Navane)") >>,
    << S("jaggery"), S("Gur(Jaggery)") >>,
    << S("wood"), S("Wood") >>,
    << S("cucumber"), S("Cucumbar(Kheera)") >>,
    << S("chilli"), S("Green Chilli") >>,
    << S("lemon"), S("Lemon") >>,
    << S("pumpkin"), S("Pumpkin") >>,
    << S("maize"), S("Maize") >>,
    << S("sugarcane"), S("Sugarcane") >>
  >>
\* src/assistantV5.py:521, get_crop_price
fs_V5_get_crop_price_L521(market, crop, variety, min_price, max_price, modal_price, date) ==
  market \o
  S(" ") \o <<2350, 2375, 2306>> \o S(" ") \o
  crop \o
  S(" (") \o
  variety \o
  S(") ") \o <<2325, 2368>> \o S(" ") \o <<2325, 2368, 2350, 2340>> \o S(": ") \o <<2344, 2381, 2351, 2370, 2344, 2340, 2350>> \o S(" ") \o <<8377>> \o
  min_price \o
  S(", ") \o <<2309, 2343, 2367, 2325, 2340, 2350>> \o S(" ") \o <<8377>> \o
  max_price \o
  S(", ") \o <<2350, 2379, 2337, 2354>> \o S(" ") \o <<8377>> \o
  modal_price \o
  S(" ") \o <<2346, 2381, 2352, 2340, 2367>> \o S(" ") \o <<2325, 2381, 2357, 2367, 2306, 2335, 2354>> \o S(" (") \o <<2340, 2366, 2352, 2368, 2326>> \o S(": ") \o
  date \o
  S(")")

\* src/assistantV5.py:525, get_crop_price
fs_V5_get_crop_price_L525(crop, variety, market, min_price, max_price, modal_price, date) ==
  S("Price of ") \o
  crop \o
  S(" (") \o
  variety \o
  S(") in ") \o
  market \o
  S(": Min ") \o <<8377>> \o
  min_price \o
  S(", Max ") \o <<8377>> \o
  max_price \o
  S(", Modal ") \o <<8377>> \o
  modal_price \o
  S(" per quintal (date: ") \o
  date \o
  S(")")

\* src/assistantV5.py:562, get_weather_info
fs_V5_get_weather_info_L562(location, condition, temperature, humidity, rainfall, forecast) ==
  location \o
  S(" ") \o <<2350, 2375, 2306>> \o S(" ") \o <<2350, 2380, 2360, 2350>> \o S(": ") \o
  condition \o
  S(", ") \o <<2340, 2366, 2346, 2350, 2366, 2344>> \o S(": ") \o
  temperature \o
  <<176>> \o S("C, ") \o <<2344, 2350, 2368>> \o S(": ") \o
  humidity \o
  S("%, ") \o <<2357, 2352, 2381, 2359, 2366>> \o S(": ") \o
  rainfall \o
  S("mm. ") \o <<2346, 2370, 2352, 2381, 2357, 2366, 2344, 2369, 2350, 2366, 2344>> \o S(": ") \o
  forecast

\* src/assistantV5.py:565, get_weather_info
fs_V5_get_weather_info_L565(location, condition, temperature, humidity, rainfall, forecast) ==
  S("Weater in ") \o
  location \o
  S(": ") \o
  condition \o
  S(", Temperature: ") \o
  temperature \o
  <<176>> \o S("C, Humidity: ") \o
  humidity \o
  S("%, Rainfall: ") \o
  rainfall \o
  S("mm. Forecast: ") \o
  forecast

\* src/assistantV5.py:589, get_agriculture_advice; arg1 is self.current_language
fs_V5_get_agriculture_advice_L589(arg1) ==
  S("advice_") \o
  arg1

\* src/assistantV5.py:593, get_agriculture_advice
fs_V5_get_agriculture_advice_L593(crop, advice) ==
  crop \o
  S(" ") \o <<2325, 2375>> \o S(" ") \o <<2354, 2367, 2319>> \o S(" ") \o <<2360, 2354, 2366, 2361>> \o S(": ") \o
  advice

\* src/assistantV5.py:595, get_agriculture_advice
fs_V5_get_agriculture_advice_L595(crop, advice) ==
  S("Advice for ") \o
  crop \o
  S(": ") \o
  advice

\* src/assistantV5.py:612, get_crop_variety_info
fs_V5_get_crop_variety_info_L612(crop) ==
  crop \o
  S(" ") \o <<2325, 2368>> \o S(" ") \o <<2346, 2381, 2352, 2350, 2369, 2326>> \o S(" ") \o <<2325, 2367, 2360, 2381, 2350, 2375, 2306>> \o S(":") \o <<10>>

\* src/assistantV5.py:614, get_crop_variety_info; arg1 is variety.get('variety', 'N/A'), arg2 is variety.get('characteristics', 'N/A'), arg3 is variety.get('yield', 'N/A'), arg4 is variety.get('duration', 'N/A')
fs_V5_get_crop_variety_info_L614(arg1, arg2, arg3, arg4) ==
  S("- ") \o
  arg1 \o
  S(": ") \o
  arg2 \o
  S(", ") \o <<2313, 2346, 2332>> \o S(": ") \o
  arg3 \o
  S(", ") \o <<2309, 2357, 2343, 2367>> \o S(": ") \o
  arg4 \o
  <<10>>

\* src/assistantV5.py:616, get_crop_variety_info
fs_V5_get_crop_variety_info_L616(crop) ==
  S("Major varieties of ") \o
  crop \o
  S(":") \o <<10>>

\* src/assistantV5.py:618, get_crop_variety_info; arg1 is variety.get('variety', 'N/A'), arg2 is variety.get('characteristics', 'N/A'), arg3 is variety.get('yield', 'N/A'), arg4 is variety.get('duration', 'N/A')
fs_V5_get_crop_variety_info_L618(arg1, arg2, arg3, arg4) ==
  S("- ") \o
  arg1 \o
  S(": ") \o
  arg2 \o
  S(", Yield: ") \o
  arg3 \o
  S(", Duration: ") \o
  arg4 \o
  <<10>>

\* src/assistantV5.py:623, get_crop_variety_info
fs_V5_get_crop_variety_info_L623(crop) ==
  <<2325, 2381, 2359, 2350, 2366>> \o S(" ") \o <<2325, 2352, 2375, 2306>> \o S(", ") \o <<2350, 2375, 2352, 2375>> \o S(" ") \o <<2346, 2366, 2360>> \o S(" ") \o
  crop \o
  S(" ") \o <<2325, 2368>> \o S(" ") \o <<2325, 2367, 2360, 2381, 2350, 2379, 2306>> \o S(" ") \o <<2325, 2368>> \o S(" ") \o <<2332, 2366, 2344, 2325, 2366, 2352, 2368>> \o S(" ") \o <<2344, 2361, 2368, 2306>> \o S(" ") \o <<2361, 2376>>

\* src/assistantV5.py:625, get_crop_variety_info
fs_V5_get_crop_variety_info_L625(crop) ==
  S("Sorry, I don't have information about varieties of ") \o
  crop

\* src/assistantV5.py:639, get_market_info
fs_V5_get_market_info_L639(location) ==
  location \o
  S(" ") \o <<2350, 2375, 2306>> \o S(" ") \o <<2346, 2381, 2352, 2350, 2369, 2326>> \o S(" ") \o <<2325, 2371, 2359, 2367>> \o S(" ") \o <<2348, 2366, 2332, 2366, 2352>> \o S(":") \o <<10>>

\* src/assistantV5.py:641, get_market_info; arg1 is market.get('market_name', 'N/A'), arg2 is market.get('contact', 'N/A'), arg3 is market.get('business_hours', 'N/A')
fs_V5_get_market_info_L641(arg1, arg2, arg3) ==
  S("- ") \o
  arg1 \o
  S(": ") \o <<2360, 2306, 2346, 2352, 2381, 2325>> \o S(": ") \o
  arg2 \o
  S(", ") \o <<2357, 2381, 2351, 2366, 2346, 2366, 2352>> \o S(" ") \o <<2325, 2375>> \o S(" ") \o <<2328, 2306, 2335, 2375>> \o S(": ") \o
  arg3 \o
  <<10>>

\* src/assistantV5.py:643, get_market_info
fs_V5_get_market_info_L643(location) ==
  S("Major agricultural markets in ") \o
  location \o
  S(":") \o <<10>>

\* src/assistantV5.py:645, get_market_info; arg1 is market.get('market_name', 'N/A'), arg2 is market.get('contact', 'N/A'), arg3 is market.get('business_hours', 'N/A')
fs_V5_get_market_info_L645(arg1, arg2, arg3) ==
  S("- ") \o
  arg1 \o
  S(": Contact: ") \o
  arg2 \o
  S(", Business hours: ") \o
  arg3 \o
  <<10>>

\* src/assistantV5.py:650, get_market_info
fs_V5_get_market_info_L650(location) ==
  <<2325, 2381, 2359, 2350, 2366>> \o S(" ") \o <<2325, 2352, 2375, 2306>> \o S(", ") \o <<2350, 2375, 2352, 2375>> \o S(" ") \o <<2346, 2366, 2360>> \o S(" ") \o
  location \o
  S(" ") \o <<2350, 2375, 2306>> \o S(" ") \o <<2348, 2366, 2332, 2366, 2352, 2379, 2306>> \o S(" ") \o <<2325, 2368>> \o S(" ") \o <<2332, 2366, 2344, 2325, 2366, 2352, 2368>> \o S(" ") \o <<2344, 2361, 2368, 2306>> \o S(" ") \o <<2361, 2376>>

\* src/assistantV5.py:652, get_market_info
fs_V5_get_market_info_L652(location) ==
  S("Sorry, I don't have information about markets in ") \o
  location

\* src/assistantV5.py:742, process_query
fs_V5_process_query_L742 ==
  <<2325, 2381, 2359, 2350, 2366>> \o S(" ") \o <<2325, 2352, 2375, 2306>> \o S(", ") \o <<2350, 2376, 2306>> \o S(" ") \o <<2325, 2375, 2357, 2354>> \o S(" ") \o <<2325, 2368, 2350, 2340, 2379, 2306>> \o S(", ") \o <<2350, 2380, 2360, 2350>> \o S(", ") \o <<2325, 2371, 2359, 2367>> \o S(" ") \o <<2360, 2354, 2366, 2361>> \o S(", ") \o <<2325, 2367, 2360, 2381, 2350, 2379, 2306>> \o S(" ") \o <<2324, 2352>> \o S(" ") \o <<2348, 2366, 2332, 2366, 2352>> \o S(" ") \o <<2332, 2366, 2344, 2325, 2366, 2352, 2368>> \o S(" ") \o <<2325, 2375>> \o S(" ") \o <<2348, 2366, 2352, 2375>> \o S(" ") \o <<2350, 2375, 2306>> \o S(" ") \o <<2350, 2342, 2342>> \o S(" ") \o <<2325, 2352>> \o S(" ") \o <<2360, 2325, 2340, 2366>> \o S(" ") \o <<2361, 2370, 2306>>

\* src/assistantV5.py:744, process_query
fs_V5_process_query_L744 ==
  S("I can help with prices, weather, agricultural advice, variety information, and market details. Please try again.")

\* src/assistantV4/assistantV4_b.py:857, get_weather_info
fs_V4b_get_weather_info_L857(location, condition, temperature, humidity, rainfall, forecast) ==
  S("Weather in ") \o
  location \o
  S(": ") \o
  condition \o
  S(", Temperature: ") \o
  temperature \o
  <<176>> \o S("C, Humidity: ") \o
  humidity \o
  S("%, Rainfall: ") \o
  rainfall \o
  S("mm. Forecast: ") \o
  forecast

\* src/assistantV4/assistantV4_b.py:905, get_crop_variety_info
fs_V4b_get_crop_variety_info_L905(crop, variety, characteristics, yield_val, duration) ==
  crop \o
  S(" ") \o <<2325, 2368>> \o S(" ") \o <<2346, 2381, 2352, 2350, 2369, 2326>> \o S(" ") \o <<2325, 2367, 2360, 2381, 2350>> \o S(": ") \o
  variety \o
  S(", ") \o <<2357, 2367, 2358, 2375, 2359, 2340, 2366, 2319, 2306>> \o S(": ") \o
  characteristics \o
  S(", ") \o <<2313, 2346, 2332>> \o S(": ") \o
  yield_val \o
  S(", ") \o <<2309, 2357, 2343, 2367>> \o S(": ") \o
  duration

\* src/assistantV4/assistantV4_b.py:908, get_crop_variety_info
fs_V4b_get_crop_variety_info_L908(crop, variety, characteristics, yield_val, duration) ==
  S("Major variety of ") \o
  crop \o
  S(": ") \o
  variety \o
  S(", Characteristics: ") \o
  characteristics \o
  S(", Yield: ") \o
  yield_val \o
  S(", Duration: ") \o
  duration

\* src/assistantV4/assistantV4_b.py:929, get_market_info
fs_V4b_get_market_info_L929(location, market_name, contact, business_hours) ==
  location \o
  S(" ") \o <<2350, 2375, 2306>> \o S(" ") \o <<2346, 2381, 2352, 2350, 2369, 2326>> \o S(" ") \o <<2325, 2371, 2359, 2367>> \o S(" ") \o <<2348, 2366, 2332, 2366, 2352>> \o S(": ") \o
  market_name \o
  S(", ") \o <<2360, 2306, 2346, 2352, 2381, 2325>> \o S(": ") \o
  contact \o
  S(", ") \o <<2357, 2381, 2351, 2366, 2346, 2366, 2352>> \o S(" ") \o <<2325, 2375>> \o S(" ") \o <<2328, 2306, 2335, 2375>> \o S(": ") \o
  business_hours

\* src/assistantV4/assistantV4_b.py:932, get_market_info
fs_V4b_get_market_info_L932(location, market_name, contact, business_hours) ==
  S("Major agricultural market in ") \o
  location \o
  S(": ") \o
  market_name \o
  S(", Contact: ") \o
  contact \o
  S(", Business hours: ") \o
  business_hours

\* ------------------------------------------------------------ dictionaries

\* A Python dict with string keys, in insertion order: a sequence of
\* [key, value] entries with distinct keys.
EmptyDict == <<>>

HasKey(d, k) == \E i \in 1..Len(d) : d[i].key = k

Lookup(d, k) == d[CHOOSE i \in 1..Len(d) : d[i].key = k].value

\* d[k] = v: an existing key keeps its position, a new key is appended.
Put(d, k, v) ==
  IF HasKey(d, k)
  THEN [i \in 1..Len(d) |-> IF d[i].key = k THEN [key |-> k, value |-> v] ELSE d[i]]
  ELSE Append(d, [key |-> k, value |-> v])

\* row.get(name, default) on a row of a table: a function from column names
\* (texts) to values (texts).
get(row, name, default) == IF name \in DOMAIN row THEN row[name] ELSE default

\* csv.DictReader over the rows of a file (the first row is the header): one
\* dict per data row, column name -> value.
DictReader(rows) ==
  IF rows = <<>> THEN <<>>
  ELSE [i \in 1..(Len(rows) - 1) |->
          [h \in {rows[1][j] : j \in 1..Len(rows[1])} |->
             rows[i + 1][CHOOSE j \in 1..Len(rows[1]) : rows[1][j] = h]]]

\* ------------------------------------------------------------------ files

\* The six CSV tables of data/, by the attribute that holds them in memory.
TableFiles ==
  {"mandi_prices", "weather_data", "crop_advice", "localization", "crop_varieties", "market_info"}

\* What a table file on disk holds: it is absent, or it holds the rows that
\* create_default_data_files writes (the file an earlier session left).
Absent == "absent"
DefaultRows == "default"

\* The rows of a file that holds the default table.
default_rows(file) ==
  CASE file = "mandi_prices" -> default_mandi_data
    [] file = "weather_data" -> default_weather_data
    [] file = "crop_advice" -> default_advice_data
    [] file = "localization" -> default_localization_data
    [] file = "crop_varieties" -> default_varieties_data
    [] file = "market_info" -> default_market_data

\* load_csv_data(filepath): {} when the file does not exist, else the rows
\* keyed by the lower-cased value of their first column (a later row with the
\* same key replaces the earlier one).
RECURSIVE load_rows(_, _, _, _)
load_rows(header, dicts, i, data) ==
  IF i > Len(dicts) THEN data
  ELSE load_rows(header, dicts, i + 1, Put(data, lower(dicts[i][header[1]]), dicts[i]))

load_csv_data(disk, file) ==
  IF disk[file] = Absent THEN EmptyDict
  ELSE LET keyed(rows) == load_rows(rows[1], DictReader(rows), 1, EmptyDict)
       IN  keyed(default_rows(file))

\* load_mandi_price_data(filepath): [] when the file does not exist, else the
\* list of its records, the column names with '_x0020_' replaced by a space
\* and 'Arrival_Date' by 'Arrival Date'.
mandi_column(name) ==
  replace(replace(name, S("_x0020_"), S(" ")), S("Arrival_Date"), S("Arrival Date"))

load_mandi_price_data(disk, file) ==
  IF disk[file] = Absent THEN <<>>
  ELSE LET header(columns) == [j \in 1..Len(columns) |-> mandi_column(columns[j])]
           records(rows) == DictReader(<<header(rows[1])>> \o Tail(rows))
       IN  records(default_rows(file))

\* create_default_data_files(): every table file that does not exist is
\* written with its default rows; an existing file is left as it is.
create_default_data_files(disk) ==
  [f \in TableFiles |-> IF disk[f] = Absent THEN DefaultRows ELSE disk[f]]

\* Python's None for an optional string; a value is true when it is neither
\* None nor the empty string.
None == <<-1>>

Truthy(x) == x # None /\ x # <<>>

\* The two files that define class AgriculturalAssistantV5.
V5 == "src/assistantV5.py"
V4b == "src/assistantV4/assistantV4_b.py"
Builds == {V5, V4b}

\* ------------------------------------------------------- language detector

hindi_roman_words(b) == IF b = V5 THEN hindi_roman_words_V5 ELSE hindi_roman_words_V4b

\* detect_language without the test of the script.
detect_language_by_words_only(b, text) ==
  IF FALSE
  THEN "hindi"
  ELSE LET hindi_word_count(words, roman) ==
             Cardinality({i \in 1..Len(words) : \E k \in 1..Len(roman) : words[i] = roman[k]})
           majority(words) ==
             IF 5 * hindi_word_count(words, hindi_roman_words(b)) > Len(words)
             THEN "hindi" ELSE "english"
       IN  majority(split(lower(text)))

\* detect_language with hindi from 20% of the words on.
detect_language_from_a_fifth(b, text) ==
  IF \E i \in 1..Len(text) : text[i] >= DevanagariFirst /\ text[i] <= DevanagariLast
  THEN "hindi"
  ELSE LET hindi_word_count(words, roman) ==
             Cardinality({i \in 1..Len(words) : \E k \in 1..Len(roman) : words[i] = roman[k]})
           majority(words) ==
             IF 5 * hindi_word_count(words, hindi_roman_words(b)) >= Len(words)
             THEN "hindi" ELSE "english"
       IN  majority(split(lower(text)))

\* detect_language(text).  The code compares hindi_word_count > len(words) * 0.2
\* in floating point; for every token count below 3000 that is the integer
\* comparison 5 * hindi_word_count > len(words).
detect_language(b, text) ==
  IF \E i \in 1..Len(text) : text[i] >= DevanagariFirst /\ text[i] <= DevanagariLast
  THEN "hindi"
  ELSE LET hindi_word_count(words, roman) ==
             Cardinality({i \in 1..Len(words) : \E k \in 1..Len(roman) : words[i] = roman[k]})
           majority(words) ==
             IF 5 * hindi_word_count(words, hindi_roman_words(b)) > Len(words)
             THEN "hindi" ELSE "english"
       IN  majority(split(lower(text)))

\* ------------------------------------------------------- intent classifier

hindi_price_words(b) == IF b = V5 THEN hindi_price_words_V5 ELSE hindi_price_words_V4b
hindi_weather_words(b) == IF b = V5 THEN hindi_weather_words_V5 ELSE hindi_weather_words_V4b
hindi_advice_words(b) == IF b = V5 THEN hindi_advice_words_V5 ELSE hindi_advice_words_V4b
hindi_greeting_words(b) == IF b = V5 THEN hindi_greeting_words_V5 ELSE hindi_greeting_words_V4b
hindi_variety_words(b) == IF b = V5 THEN hindi_variety_words_V5 ELSE hindi_variety_words_V4b
hindi_market_words(b) == IF b = V5 THEN hindi_market_words_V5 ELSE hindi_market_words_V4b

\* The English chain with the market test ahead of the price test.
classify_intent_market_first(b, language, text0) ==
  LET text == lower(text0)
  IN  IF AnyIn(english_market_words, text) THEN "get_market_info"
      ELSE IF AnyIn(english_price_words, text) THEN "get_price"
      ELSE IF AnyIn(english_weather_words, text) THEN "get_weather"
      ELSE IF AnyIn(english_advice_words, text) THEN "get_advice"
      ELSE IF AnyIn(english_greeting_words, text) THEN "greeting"
      ELSE IF AnyIn(english_variety_words, text) THEN "get_variety_info"
      ELSE "unknown"

\* The chain over the English keyword lists, whatever the language.
classify_intent_english_words(b, language, text0) ==
  LET text == lower(text0)
  IN  IF AnyIn(english_price_words, text) THEN "get_price"
      ELSE IF AnyIn(english_weather_words, text) THEN "get_weather"
      ELSE IF AnyIn(english_advice_words, text) THEN "get_advice"
      ELSE IF AnyIn(english_greeting_words, text) THEN "greeting"
      ELSE IF AnyIn(english_variety_words, text) THEN "get_variety_info"
      ELSE IF AnyIn(english_market_words, text) THEN "get_market_info"
      ELSE "unknown"

\* The chain with the weather test ahead of the price test.
classify_intent_weather_first(b, language, text0) ==
  LET text == lower(text0)
  IN  IF language = "hindi"
      THEN IF AnyIn(hindi_weather_words(b), text) THEN "get_weather"
           ELSE IF AnyIn(hindi_price_words(b), text) THEN "get_price"
           ELSE IF AnyIn(hindi_advice_words(b), text) THEN "get_advice"
           ELSE IF AnyIn(hindi_greeting_words(b), text) THEN "greeting"
           ELSE IF AnyIn(hindi_variety_words(b), text) THEN "get_variety_info"
           ELSE IF AnyIn(hindi_market_words(b), text) THEN "get_market_info"
           ELSE "unknown"
      ELSE IF AnyIn(english_weather_words, text) THEN "get_weather"
           ELSE IF AnyIn(english_price_words, text) THEN "get_price"
           ELSE IF AnyIn(english_advice_words, text) THEN "get_advice"
           ELSE IF AnyIn(english_greeting_words, text) THEN "greeting"
           ELSE IF AnyIn(english_variety_words, text) THEN "get_variety_info"
           ELSE IF AnyIn(english_market_words, text) THEN "get_market_info"
           ELSE "unknown"

\* classify_intent_rule_based(text), with self.current_language = language: the
\* if/elif chain over the keyword lists of that language, "unknown" at the end.
classify_intent_rule_based(b, language, text0) ==
  LET text == lower(text0)
  IN  IF language = "hindi"
      THEN IF AnyIn(hindi_price_words(b), text) THEN "get_price"
           ELSE IF AnyIn(hindi_weather_words(b), text) THEN "get_weather"
           ELSE IF AnyIn(hindi_advice_words(b), text) THEN "get_advice"
           ELSE IF AnyIn(hindi_greeting_words(b), text) THEN "greeting"
           ELSE IF AnyIn(hindi_variety_words(b), text) THEN "get_variety_info"
           ELSE IF AnyIn(hindi_market_words(b), text) THEN "get_market_info"
           ELSE "unknown"
      ELSE IF AnyIn(english_price_words, text) THEN "get_price"
           ELSE IF AnyIn(english_weather_words, text) THEN "get_weather"
           ELSE IF AnyIn(english_advice_words, text) THEN "get_advice"
           ELSE IF AnyIn(english_greeting_words, text) THEN "greeting"
           ELSE IF AnyIn(english_variety_words, text) THEN "get_variety_info"
           ELSE IF AnyIn(english_market_words, text) THEN "get_market_info"
           ELSE "unknown"

\* The statistical classifier: self.intent_classifier is None or a loaded model.
\* One call of the model either raises, or predicts a label with a confidence
\* (predict_proba(...).max(), here in percent).
NoModel == "None"
Model == "model"
ConfidenceThreshold == 40

\* classify_intent with the prediction dropped at the threshold itself.
classify_intent_above_threshold(b, intent_classifier, ml, language, text) ==
  IF intent_classifier # NoModel /\ ~ml.raises /\ ml.probability > ConfidenceThreshold
  THEN ml.prediction
  ELSE classify_intent_rule_based(b, language, text)

\* classify_intent(text): the model's prediction when a model is loaded, the
\* call does not raise and the confidence is not below 0.4; else the rules.
classify_intent(b, intent_classifier, ml, language, text) ==
  IF intent_classifier # NoModel /\ ~ml.raises /\ ~(ml.probability < ConfidenceThreshold)
  THEN ml.prediction
  ELSE classify_intent_rule_based(b, language, text)

\* ------------------------------------------------------- entity extractor

crop_map(b) == IF b = V5 THEN crop_map_V5 ELSE crop_map_V4b
location_map(b) == IF b = V5 THEN location_map_V5 ELSE location_map_V4b
variety_map(b) == IF b = V5 THEN variety_map_V5 ELSE variety_map_V4b

\* One scan of extract_entities: the key of the first entry, in declared
\* order, one of whose variations occurs in text; None when there is none.
FirstKey(map, text) ==
  IF \E k \in 1..Len(map) : AnyIn(map[k].variations, text)
  THEN map[CHOOSE k \in 1..Len(map) :
             /\ AnyIn(map[k].variations, text)
             /\ \A j \in 1..(k - 1) : ~AnyIn(map[j].variations, text)].key
  ELSE None

\* ------------------------------------------------------------ localization

\* What a call produces: a returned text, or an exception that leaves it.
Return(text) == [exc |-> "", text |-> text]
Raise(e) == [exc |-> e, text |-> <<>>]

\* str.format(**kwargs) for templates whose replacement fields are plain
\* names or positions: each {name} is replaced by kwargs[name]; a name that is
\* not among the keyword arguments raises KeyError; {} and {0}, which ask for
\* a positional argument when none is passed, raise IndexError; a brace
\* without its partner raises ValueError.  kwargs is a dict (name -> text).
RECURSIVE format_from(_, _, _)
format_from(text, i, kwargs) ==
  LET braces == {p \in i..Len(text) : text[p] \in {123, 125}}
  IN  IF braces = {} THEN Return(SubSeq(text, i, Len(text)))
      ELSE LET p == CHOOSE q \in braces : \A o \in braces : q <= o
               closing == {q \in braces : q > p /\ text[q] = 125}
           IN  IF text[p] = 125 \/ closing = {} THEN Raise("ValueError")
               ELSE LET j == CHOOSE q \in closing : \A o \in closing : q <= o
                        name == SubSeq(text, p + 1, j - 1)
                    IN  IF \A c \in 1..Len(name) : name[c] >= 48 /\ name[c] <= 57
                        THEN Raise("IndexError")
                        ELSE IF ~HasKey(kwargs, name) THEN Raise("KeyError")
                        ELSE LET rest == format_from(text, j + 1, kwargs)
                             IN  IF rest.exc # "" THEN rest
                                 ELSE Return(SubSeq(text, i, p - 1) \o Lookup(kwargs, name)
                                             \o rest.text)

format(text, kwargs) == format_from(text, 1, kwargs)

\* get_localized_text(key, **kwargs): the template of the current language,
\* else the english one, else ''; formatted when keyword arguments are given
\* (a KeyError of format is swallowed and leaves the template as it is); the
\* key itself when the table has no such entry.
get_localized_text(localization_data, language, key, kwargs) ==
  IF HasKey(localization_data, key)
  THEN LET template(entry) == get(entry, S(language), get(entry, S("english"), <<>>))
           swallowing(text, formatted) ==
             IF formatted.exc = "KeyError" THEN Return(text) ELSE formatted
           filled(text) ==
             IF kwargs # EmptyDict THEN swallowing(text, format(text, kwargs))
             ELSE Return(text)
       IN  filled(template(Lookup(localization_data, key)))
  ELSE Return(key)

\* The keyword arguments crop=..., location=... of a call.
Kw(names, values) == [i \in 1..Len(names) |-> [key |-> S(names[i]), value |-> values[i]]]

\* ---------------------------------------------------------- price lookup

\* dict.get on self.crop_name_mapping.
commodity_of(crop) ==
  LET mapped(mapping, key) ==
        IF \E i \in 1..Len(mapping) : mapping[i][1] = key
        THEN mapping[CHOOSE i \in 1..Len(mapping) : mapping[i][1] = key][2]
        ELSE crop
  IN  mapped(crop_name_mapping, lower(crop))

IsDigit(c) == c >= 48 /\ c <= 57

RECURSIVE number(_)
number(digits) ==
  IF digits = <<>> THEN 0
  ELSE 10 * number(SubSeq(digits, 1, Len(digits) - 1)) + (digits[Len(digits)] - 48)

DaysIn(y, m) ==
  IF m \in {4, 6, 9, 11} THEN 30
  ELSE IF m = 2 THEN (IF (y % 4 = 0 /\ y % 100 # 0) \/ y % 400 = 0 THEN 29 ELSE 28)
  ELSE 31

\* datetime.strptime(text, '%d-%m-%Y'): day and month of one or two digits, a
\* year of four, a date of the calendar; ok = FALSE stands for ValueError.
\* key orders the dates as datetime does.
strptime(text) ==
  LET dashes == {i \in 1..Len(text) : text[i] = 45}
  IN  IF Cardinality(dashes) # 2 THEN [ok |-> FALSE, key |-> 0]
      ELSE LET p == CHOOSE i \in dashes : \A j \in dashes : i <= j
               q == CHOOSE i \in dashes : \A j \in dashes : j <= i
               dd == SubSeq(text, 1, p - 1)
               mm == SubSeq(text, p + 1, q - 1)
               yy == SubSeq(text, q + 1, Len(text))
               digits(t) == \A i \in 1..Len(t) : IsDigit(t[i])
           IN  IF /\ Len(dd) \in {1, 2} /\ Len(mm) \in {1, 2} /\ Len(yy) = 4
                  /\ digits(dd) /\ digits(mm) /\ digits(yy)
                  /\ number(mm) \in 1..12 /\ number(yy) >= 1
                  /\ number(dd) >= 1 /\ number(dd) <= DaysIn(number(yy), number(mm))
               THEN [ok |-> TRUE, key |-> number(yy) * 10000 + number(mm) * 100 + number(dd)]
               ELSE [ok |-> FALSE, key |-> 0]

\* list.sort(key=..., reverse=True) on the list of [key, record] pairs the
\* sort builds: descending by key, records of equal key in their original
\* order.
RECURSIVE sort_reverse(_)
sort_reverse(keyed) ==
  IF keyed = <<>> THEN <<>>
  ELSE LET best == CHOOSE i \in 1..Len(keyed) :
                     /\ \A j \in 1..Len(keyed) : keyed[j].key <= keyed[i].key
                     /\ \A j \in 1..(i - 1) : keyed[j].key < keyed[i].key
       IN  <<keyed[best].record>> \o
           sort_reverse(SubSeq(keyed, 1, best - 1) \o SubSeq(keyed, best + 1, Len(keyed)))

\* The lookup that sorts the records whose dates parse and leaves the others
\* out.
get_crop_price_from_mandi_skipping_bad_dates(price_data, crop, location, variety) ==
  LET of_commodity(records, commodity_name) ==
        SelectSeq(records,
                  LAMBDA record : lower(get(record, S("Commodity"), <<>>)) = commodity_name)
      of_location(records) ==
        IF Truthy(location)
        THEN SelectSeq(records,
                       LAMBDA record : \/ lower(get(record, S("District"), <<>>)) = lower(location)
                                       \/ lower(get(record, S("Market"), <<>>)) = lower(location)
                                       \/ lower(get(record, S("State"), <<>>)) = lower(location))
        ELSE records
      of_variety(records) ==
        IF Truthy(variety)
        THEN SelectSeq(records,
                       LAMBDA record : lower(get(record, S("Variety"), <<>>)) = lower(variety))
        ELSE records
      dated(records) ==
        [i \in 1..Len(records) |->
           [date |-> strptime(get(records[i], S("Arrival Date"), <<>>)), record |-> records[i]]]
      latest(matching_records, dates) ==
        IF matching_records = <<>> THEN None
        ELSE IF \E i \in 1..Len(dates) : dates[i].date.ok
             THEN sort_reverse([i \in 1..Len(SelectSeq(dates, LAMBDA d : d.date.ok)) |->
                                  [key |-> SelectSeq(dates, LAMBDA d : d.date.ok)[i].date.key,
                                   record |-> SelectSeq(dates, LAMBDA d : d.date.ok)[i].record]])[1]
             ELSE matching_records[1]
      first_of(matching_records) == latest(matching_records, dated(matching_records))
  IN  first_of(of_variety(of_location(of_commodity(price_data, lower(commodity_of(crop))))))

\* The lookup without the sort by Arrival Date.
get_crop_price_from_mandi_first_in_table(price_data, crop, location, variety) ==
  LET of_commodity(records, commodity_name) ==
        SelectSeq(records,
                  LAMBDA record : lower(get(record, S("Commodity"), <<>>)) = commodity_name)
      of_location(records) ==
        IF Truthy(location)
        THEN SelectSeq(records,
                       LAMBDA record : \/ lower(get(record, S("District"), <<>>)) = lower(location)
                                       \/ lower(get(record, S("Market"), <<>>)) = lower(location)
                                       \/ lower(get(record, S("State"), <<>>)) = lower(location))
        ELSE records
      of_variety(records) ==
        IF Truthy(variety)
        THEN SelectSeq(records,
                       LAMBDA record : lower(get(record, S("Variety"), <<>>)) = lower(variety))
        ELSE records
      dated(records) ==
        [i \in 1..Len(records) |->
           [date |-> strptime(get(records[i], S("Arrival Date"), <<>>)), record |-> records[i]]]
      latest(matching_records, dates) ==
        IF matching_records = <<>> THEN None
        ELSE matching_records[1]
      first_of(matching_records) == latest(matching_records, dated(matching_records))
  IN  first_of(of_variety(of_location(of_commodity(price_data, lower(commodity_of(crop))))))

\* get_crop_price_from_mandi(crop, location, variety): the records of the
\* commodity, then of the location (district, market or state), then of the
\* variety; None when none is left; else the first after sorting by Arrival
\* Date, latest first; when a date does not parse, the list stays unsorted.
get_crop_price_from_mandi(price_data, crop, location, variety) ==
  LET of_commodity(records, commodity_name) ==
        SelectSeq(records,
                  LAMBDA record : lower(get(record, S("Commodity"), <<>>)) = commodity_name)
      of_location(records) ==
        IF Truthy(location)
        THEN SelectSeq(records,
                       LAMBDA record : \/ lower(get(record, S("District"), <<>>)) = lower(location)
                                       \/ lower(get(record, S("Market"), <<>>)) = lower(location)
                                       \/ lower(get(record, S("State"), <<>>)) = lower(location))
        ELSE records
      of_variety(records) ==
        IF Truthy(variety)
        THEN SelectSeq(records,
                       LAMBDA record : lower(get(record, S("Variety"), <<>>)) = lower(variety))
        ELSE records
      dated(records) ==
        [i \in 1..Len(records) |->
           [date |-> strptime(get(records[i], S("Arrival Date"), <<>>)), record |-> records[i]]]
      latest(matching_records, dates) ==
        IF matching_records = <<>> THEN None
        ELSE IF \A i \in 1..Len(dates) : dates[i].date.ok
             THEN sort_reverse([i \in 1..Len(dates) |->
                                  [key |-> dates[i].date.key, record |-> dates[i].record]])[1]
             ELSE matching_records[1]
      first_of(matching_records) == latest(matching_records, dated(matching_records))
  IN  first_of(of_variety(of_location(of_commodity(price_data, lower(commodity_of(crop))))))


\* ------------------------------------------------ AgriculturalAssistantEnhanced

\* classify_intent_rule_based of class AgriculturalAssistantEnhanced
\* (src/assistantV4.py:113-137): the if/elif chain over the Hindi keyword
\* lists, in the order of its tests, with the label each test returns.
Enhanced_hindi_chain ==
  << [words |-> << <<2349, 2366, 2357>>, <<2350, 2370, 2354, 2381, 2351>>, <<2342, 2352>>, <<2325, 2368, 2350, 2340>>, <<2354, 2366, 2327, 2340>> >>, intent |-> "get_price"],
     [words |-> << <<2350, 2380, 2360, 2350>>, <<2348, 2366, 2352, 2367, 2358>>, <<2340, 2366, 2346, 2350, 2366, 2344>>, <<2357, 2352, 2381, 2359, 2366>> >>, intent |-> "get_weather"],
     [words |-> << <<2352, 2379, 2327>>, <<2325, 2368, 2335>>, <<2360, 2350, 2360, 2381, 2351, 2366>>, <<2360, 2354, 2366, 2361>>, <<2313, 2346, 2366, 2351>>, <<2332, 2366, 2344, 2325, 2366, 2352, 2368>> >>, intent |-> "get_advice"],
     [words |-> << <<2344, 2350, 2360, 2381, 2340, 2375>>, <<2361, 2376, 2354, 2379>>, <<2361, 2366, 2351>>, <<2325, 2376, 2360, 2375>> >>, intent |-> "greeting"] >>

\* The if/elif chain over the English keyword lists, which comes second.
Enhanced_english_chain ==
  << [words |-> << S("price"), S("cost"), S("rate"), S("bhav") >>, intent |-> "get_price"],
     [words |-> << S("weather"), S("rain"), S("temperature"), S("forecast") >>, intent |-> "get_weather"],
     [words |-> << S("disease"), S("pest"), S("problem"), S("advice"), S("help") >>, intent |-> "get_advice"],
     [words |-> << S("hello"), S("hi"), S("hey"), S("howdy") >>, intent |-> "greeting"] >>

\* The label of the first test of a chain that finds one of its words in the
\* text, or "" when the chain falls through.
first_in_chain(chain, text) ==
  IF \E k \in 1..Len(chain) : AnyIn(chain[k].words, text)
  THEN chain[CHOOSE k \in 1..Len(chain) :
               /\ AnyIn(chain[k].words, text)
               /\ \A j \in 1..(k - 1) : ~AnyIn(chain[j].words, text)].intent
  ELSE ""

\* AgriculturalAssistantEnhanced.classify_intent_rule_based(text): the Hindi
\* chain returns when one of its tests matches; only when none does is the
\* English chain tried, whose else returns "unknown".
Enhanced_classify_intent_rule_based(text0) ==
  LET text == lower(text0)
      english(label) == IF label # "" THEN label ELSE "unknown"
      hindi(label) == IF label # "" THEN label
                      ELSE english(first_in_chain(Enhanced_english_chain, text))
  IN  hindi(first_in_chain(Enhanced_hindi_chain, text))
\* ------------------------------------------------------- response functions

NA == S("N/A")

\* The sentence get_crop_price builds from a price record (the same in both
\* files).
price_sentence(language, crop, price_record) ==
  LET market == get(price_record, S("Market"), S("Unknown market"))
      variety == get(price_record, S("Variety"), S("Unknown variety"))
      min_price == get(price_record, S("Min Price"), NA)
      max_price == get(price_record, S("Max Price"), NA)
      modal_price == get(price_record, S("Modal Price"), NA)
      date == get(price_record, S("Arrival Date"), S("Unknown date"))
  IN  IF language = "hindi"
      THEN fs_V5_get_crop_price_L521(market, crop, variety, min_price, max_price, modal_price, date)
      ELSE fs_V5_get_crop_price_L525(crop, variety, market, min_price, max_price, modal_price, date)

\* get_crop_price of src/assistantV5.py.  When the mandi lookup finds no
\* record the method goes on to `for key, data in self.price_data.items()`;
\* self.price_data is the list load_mandi_price_data returned, a list has no
\* items(), and AttributeError leaves the method.
get_crop_price_V5(price_data, localization_data, language, crop, location, variety) ==
  LET answer(price_record) ==
        IF price_record # None
        THEN Return(price_sentence(language, crop, price_record))
        ELSE Raise("AttributeError")
  IN  answer(get_crop_price_from_mandi(price_data, crop, location, variety))

\* get_crop_price of src/assistantV4/assistantV4_b.py: the sentence of the
\* record found, else the price_not_found message.
get_crop_price_V4b(price_data, localization_data, language, crop, location, variety) ==
  LET answer(price_record) ==
        IF price_record # None
        THEN Return(price_sentence(language, crop, price_record))
        ELSE get_localized_text(localization_data, language, S("price_not_found"),
                                Kw(<<"crop", "location">>, <<crop, location>>))
  IN  answer(get_crop_price_from_mandi(price_data, crop, location, variety))

get_crop_price(b, price_data, localization_data, language, crop, location, variety) ==
  IF b = V5
  THEN get_crop_price_V5(price_data, localization_data, language, crop, location, variety)
  ELSE get_crop_price_V4b(price_data, localization_data, language, crop, location, variety)

\* get_weather_info(location), the same in both files but for the spelling
\* of the English sentence.
get_weather_info(b, weather_data, localization_data, language, location) ==
  LET location_key == lower(location)
  IN  IF HasKey(weather_data, location_key)
      THEN LET data == Lookup(weather_data, location_key)
               condition == get(data, S("condition"), NA)
               temperature == get(data, S("temperature"), NA)
               humidity == get(data, S("humidity"), NA)
               rainfall == get(data, S("rainfall"), NA)
               forecast == get(data, S("forecast"), NA)
           IN  Return(IF language = "hindi"
                      THEN fs_V5_get_weather_info_L562(location, condition, temperature, humidity, rainfall, forecast)
                      ELSE IF b = V5
                      THEN fs_V5_get_weather_info_L565(location, condition, temperature, humidity, rainfall, forecast)
                      ELSE fs_V4b_get_weather_info_L857(location, condition, temperature, humidity, rainfall, forecast))
      ELSE get_localized_text(localization_data, language, S("weather_not_found"),
                              Kw(<<"location">>, <<location>>))

\* The entries of a table whose column has the value, in table order.
entries_with(table, column, value) ==
  SelectSeq(table, LAMBDA e : lower(get(e.value, S(column), <<>>)) = value)

\* get_agriculture_advice(crop), season not given.  src/assistantV5.py takes
\* the first row whose crop column is the crop, the later file the row keyed
\* by the crop.
get_agriculture_advice(b, advice_data, localization_data, language, crop) ==
  LET crop_key == lower(crop)
      found == IF b = V5 THEN entries_with(advice_data, "crop", crop_key) # <<>>
               ELSE HasKey(advice_data, crop_key)
      data == IF b = V5 THEN entries_with(advice_data, "crop", crop_key)[1].value
              ELSE Lookup(advice_data, crop_key)
      advice_key == fs_V5_get_agriculture_advice_L589(S(language))
      advice == get(data, advice_key, get(data, S("advice_english"), S("No advice available")))
  IN  IF found
      THEN Return(IF language = "hindi" THEN fs_V5_get_agriculture_advice_L593(crop, advice)
                  ELSE fs_V5_get_agriculture_advice_L595(crop, advice))
      ELSE get_localized_text(localization_data, language, S("advice_not_found"),
                              Kw(<<"crop">>, <<crop>>))

\* response += one line per variety (src/assistantV5.py:613-614, 617-618).
RECURSIVE variety_lines(_, _)
variety_lines(language, varieties) ==
  IF varieties = <<>> THEN <<>>
  ELSE LET v == varieties[1].value
           a1 == get(v, S("variety"), NA)
           a2 == get(v, S("characteristics"), NA)
           a3 == get(v, S("yield"), NA)
           a4 == get(v, S("duration"), NA)
       IN  (IF language = "hindi" THEN fs_V5_get_crop_variety_info_L614(a1, a2, a3, a4)
            ELSE fs_V5_get_crop_variety_info_L618(a1, a2, a3, a4))
           \o variety_lines(language, Tail(varieties))

\* get_crop_variety_info(crop).
get_crop_variety_info(b, crop_varieties, language, crop) ==
  LET crop_key == lower(crop)
  IN  IF b = V5
      THEN LET varieties == entries_with(crop_varieties, "crop", crop_key)
           IN  IF varieties # <<>>
               THEN Return((IF language = "hindi" THEN fs_V5_get_crop_variety_info_L612(crop)
                            ELSE fs_V5_get_crop_variety_info_L616(crop))
                           \o variety_lines(language, varieties))
               ELSE Return(IF language = "hindi" THEN fs_V5_get_crop_variety_info_L623(crop)
                           ELSE fs_V5_get_crop_variety_info_L625(crop))
      ELSE IF HasKey(crop_varieties, crop_key)
           THEN LET data == Lookup(crop_varieties, crop_key)
                    variety == get(data, S("variety"), NA)
                    characteristics == get(data, S("characteristics"), NA)
                    yield_val == get(data, S("yield"), NA)
                    duration == get(data, S("duration"), NA)
                IN  Return(IF language = "hindi"
                           THEN fs_V4b_get_crop_variety_info_L905(crop, variety, characteristics, yield_val, duration)
                           ELSE fs_V4b_get_crop_variety_info_L908(crop, variety, characteristics, yield_val, duration))
           ELSE Return(IF language = "hindi" THEN fs_V5_get_crop_variety_info_L623(crop)
                       ELSE fs_V5_get_crop_variety_info_L625(crop))

\* response += one line per market (src/assistantV5.py:640-641, 644-645).
RECURSIVE market_lines(_, _)
market_lines(language, markets) ==
  IF markets = <<>> THEN <<>>
  ELSE LET m == markets[1].value
           a1 == get(m, S("market_name"), NA)
           a2 == get(m, S("contact"), NA)
           a3 == get(m, S("business_hours"), NA)
       IN  (IF language = "hindi" THEN fs_V5_get_market_info_L641(a1, a2, a3)
            ELSE fs_V5_get_market_info_L645(a1, a2, a3))
           \o market_lines(language, Tail(markets))

\* get_market_info(location).
get_market_info(b, market_info, language, location) ==
  LET location_key == lower(location)
  IN  IF b = V5
      THEN LET markets == entries_with(market_info, "location", location_key)
           IN  IF markets # <<>>
               THEN Return((IF language = "hindi" THEN fs_V5_get_market_info_L639(location)
                            ELSE fs_V5_get_market_info_L643(location))
                           \o market_lines(language, markets))
               ELSE Return(IF language = "hindi" THEN fs_V5_get_market_info_L650(location)
                           ELSE fs_V5_get_market_info_L652(location))
      ELSE IF HasKey(market_info, location_key)
           THEN LET data == Lookup(market_info, location_key)
                    market_name == get(data, S("market_name"), NA)
                    contact == get(data, S("contact"), NA)
                    business_hours == get(data, S("business_hours"), NA)
                IN  Return(IF language = "hindi"
                           THEN fs_V4b_get_market_info_L929(location, market_name, contact, business_hours)
                           ELSE fs_V4b_get_market_info_L932(location, market_name, contact, business_hours))
           ELSE Return(IF language = "hindi" THEN fs_V5_get_market_info_L650(location)
                       ELSE fs_V5_get_market_info_L652(location))

\* The catch-all answer of process_query (the same in both files).
help_sentence(b, language) ==
  IF language = "hindi" THEN fs_V5_process_query_L742 ELSE fs_V5_process_query_L744

\* ------------------------------------------------------ entities of a text

\* The scans that keep the last matching key instead of the first.
scan_entities_last_key(b, text) ==
  LET last(map) ==
        IF \E k \in 1..Len(map) : AnyIn(map[k].variations, text)
        THEN map[CHOOSE k \in 1..Len(map) :
                   /\ AnyIn(map[k].variations, text)
                   /\ \A j \in (k + 1)..Len(map) : ~AnyIn(map[j].variations, text)].key
        ELSE None
  IN  [crop |-> last(crop_map(b)),
       location |-> last(location_map(b)),
       variety |-> last(variety_map(b))]

\* The three scans of extract_entities over the lower-cased text.
scan_entities(b, text) ==
  [crop |-> FirstKey(crop_map(b), text),
   location |-> FirstKey(location_map(b), text),
   variety |-> FirstKey(variety_map(b), text)]

\* The scans alone, with no use of the context.
extract_entities_of_text_only(b, scan, conversation_context) ==
  [crop |-> scan.crop, location |-> scan.location, variety |-> scan.variety]

\* extract_entities(text): the scans, then the location and the crop of the
\* context where the text names none; the variety has no such fallback.
extract_entities(b, scan, conversation_context) ==
  LET found_crop == scan.crop
      found_location == scan.location
      found_variety == scan.variety
  IN  [crop |-> IF ~Truthy(found_crop) /\ Truthy(conversation_context.last_crop)
                THEN conversation_context.last_crop ELSE found_crop,
       location |-> IF ~Truthy(found_location) /\ Truthy(conversation_context.last_location)
                    THEN conversation_context.last_location ELSE found_location,
       variety |-> found_variety]

\* ------------------------------------------------------ conversation state

HistoryCap == 100
SavePeriod == 10

\* conversation_history[-100:]
last_n(history, n) ==
  IF Len(history) > n THEN SubSeq(history, Len(history) - n + 1, Len(history)) ELSE history

\* save_conversation_history(): the file is opened for writing, which empties
\* it, and the records are written when there are any.
save_conversation_history(conversation_context) ==
  [exists |-> TRUE, rows |-> conversation_context.conversation_history]

\* load_conversation_history(): the records of the file when it exists.
load_conversation_history(conversation_context, file) ==
  IF ~file.exists THEN conversation_context
  ELSE [conversation_context EXCEPT !.conversation_history = file.rows]

\* The update that takes a greeting for the start of a new conversation and
\* forgets the crop and the location.
update_conversation_context_new_conversation(conversation_context, language, now, file, intent, crop, location, user_text, response) ==
  LET appended == Append(conversation_context.conversation_history,
                         [timestamp |-> now, user_text |-> user_text, intent |-> intent,
                          response |-> response, language |-> language])
      history == IF Len(appended) > HistoryCap THEN last_n(appended, HistoryCap) ELSE appended
      context == [last_crop |-> IF intent = "greeting" THEN None
                                ELSE IF Truthy(crop) THEN crop
                                ELSE conversation_context.last_crop,
                  last_location |-> IF intent = "greeting" THEN None
                                    ELSE IF Truthy(location) THEN location
                                    ELSE conversation_context.last_location,
                  last_intent |-> intent,
                  conversation_history |-> history]
      save == Len(history) % SavePeriod = 0
  IN  [conversation_context |-> context,
       history_file |-> IF save THEN save_conversation_history(context) ELSE file,
       saves |-> IF save THEN 1 ELSE 0]

\* The update with no cut of the history.
update_conversation_context_untrimmed(conversation_context, language, now, file, intent, crop, location, user_text, response) ==
  LET appended == Append(conversation_context.conversation_history,
                         [timestamp |-> now, user_text |-> user_text, intent |-> intent,
                          response |-> response, language |-> language])
      history == appended
      context == [last_crop |-> IF Truthy(crop) THEN crop ELSE conversation_context.last_crop,
                  last_location |-> IF Truthy(location) THEN location
                                    ELSE conversation_context.last_location,
                  last_intent |-> intent,
                  conversation_history |-> history]
      save == Len(history) % SavePeriod = 0
  IN  [conversation_context |-> context,
       history_file |-> IF save THEN save_conversation_history(context) ELSE file,
       saves |-> IF save THEN 1 ELSE 0]

\* The update that leaves last_intent as it was.
update_conversation_context_keeps_intent(conversation_context, language, now, file, intent, crop, location, user_text, response) ==
  LET appended == Append(conversation_context.conversation_history,
                         [timestamp |-> now, user_text |-> user_text, intent |-> intent,
                          response |-> response, language |-> language])
      history == IF Len(appended) > HistoryCap THEN last_n(appended, HistoryCap) ELSE appended
      context == [last_crop |-> IF Truthy(crop) THEN crop ELSE conversation_context.last_crop,
                  last_location |-> IF Truthy(location) THEN location
                                    ELSE conversation_context.last_location,
                  last_intent |-> conversation_context.last_intent,
                  conversation_history |-> history]
      save == Len(history) % SavePeriod = 0
  IN  [conversation_context |-> context,
       history_file |-> IF save THEN save_conversation_history(context) ELSE file,
       saves |-> IF save THEN 1 ELSE 0]

\* update_conversation_context(intent, crop, location, user_text, response);
\* the result carries the context, the history file and the number of saves.
update_conversation_context(conversation_context, language, now, file, intent, crop, location, user_text, response) ==
  LET appended == Append(conversation_context.conversation_history,
                         [timestamp |-> now, user_text |-> user_text, intent |-> intent,
                          response |-> response, language |-> language])
      history == IF Len(appended) > HistoryCap THEN last_n(appended, HistoryCap) ELSE appended
      context == [last_crop |-> IF Truthy(crop) THEN crop ELSE conversation_context.last_crop,
                  last_location |-> IF Truthy(location) THEN location
                                    ELSE conversation_context.last_location,
                  last_intent |-> intent,
                  conversation_history |-> history]
      save == Len(history) % SavePeriod = 0
  IN  [conversation_context |-> context,
       history_file |-> IF save THEN save_conversation_history(context) ELSE file,
       saves |-> IF save THEN 1 ELSE 0]

\* ----------------------------------------------------------- process_query

ExitWords ==
  << S("exit"), S("quit"), S("stop"), <<2348, 2306, 2342>>, <<2352, 2369, 2325, 2379>> >>

In(text, list) == \E i \in 1..Len(list) : list[i] = text

\* The membership test without lower().
is_exit_as_typed(text) == In(text, ExitWords)

\* text.lower() in ['exit', 'quit', 'stop', ...]
is_exit(text) == In(lower(text), ExitWords)

\* The chain that, for get_price, asks for the location before the crop.
respond_location_first(b, self, intent, crop, location, variety) ==
  LET language == self.current_language
      localized(key) == get_localized_text(self.localization_data, language, S(key), EmptyDict)
  IN  IF intent = "get_price"
      THEN IF Truthy(crop) /\ Truthy(location)
           THEN [branch |-> "get_crop_price",
                 out |-> get_crop_price(b, self.price_data, self.localization_data, language,
                                        crop, location, variety)]
           ELSE IF ~Truthy(location)
                THEN [branch |-> "missing_location", out |-> localized("missing_location")]
                ELSE [branch |-> "missing_crop", out |-> localized("missing_crop")]
      ELSE IF intent = "get_weather"
      THEN IF Truthy(location)
           THEN [branch |-> "get_weather_info",
                 out |-> get_weather_info(b, self.weather_data, self.localization_data,
                                          language, location)]
           ELSE [branch |-> "missing_location", out |-> localized("missing_location")]
      ELSE IF intent = "get_advice"
      THEN IF Truthy(crop)
           THEN [branch |-> "get_agriculture_advice",
                 out |-> get_agriculture_advice(b, self.advice_data, self.localization_data,
                                                language, crop)]
           ELSE [branch |-> "missing_crop", out |-> localized("missing_crop")]
      ELSE IF intent = "get_variety_info"
      THEN IF Truthy(crop)
           THEN [branch |-> "get_crop_variety_info",
                 out |-> get_crop_variety_info(b, self.crop_varieties, language, crop)]
           ELSE [branch |-> "missing_crop", out |-> localized("missing_crop")]
      ELSE IF intent = "get_market_info"
      THEN IF Truthy(location)
           THEN [branch |-> "get_market_info",
                 out |-> get_market_info(b, self.market_info, language, location)]
           ELSE [branch |-> "missing_location", out |-> localized("missing_location")]
      ELSE IF intent = "greeting"
      THEN [branch |-> "greeting", out |-> localized("greeting")]
      ELSE [branch |-> "help", out |-> Return(help_sentence(b, language))]

\* The if/elif chain of process_query over the intent: the branch taken and
\* what the call of that branch produces.
respond(b, self, intent, crop, location, variety) ==
  LET language == self.current_language
      localized(key) == get_localized_text(self.localization_data, language, S(key), EmptyDict)
  IN  IF intent = "get_price"
      THEN IF Truthy(crop) /\ Truthy(location)
           THEN [branch |-> "get_crop_price",
                 out |-> get_crop_price(b, self.price_data, self.localization_data, language,
                                        crop, location, variety)]
           ELSE IF ~Truthy(crop)
                THEN [branch |-> "missing_crop", out |-> localized("missing_crop")]
                ELSE [branch |-> "missing_location", out |-> localized("missing_location")]
      ELSE IF intent = "get_weather"
      THEN IF Truthy(location)
           THEN [branch |-> "get_weather_info",
                 out |-> get_weather_info(b, self.weather_data, self.localization_data,
                                          language, location)]
           ELSE [branch |-> "missing_location", out |-> localized("missing_location")]
      ELSE IF intent = "get_advice"
      THEN IF Truthy(crop)
           THEN [branch |-> "get_agriculture_advice",
                 out |-> get_agriculture_advice(b, self.advice_data, self.localization_data,
                                                language, crop)]
           ELSE [branch |-> "missing_crop", out |-> localized("missing_crop")]
      ELSE IF intent = "get_variety_info"
      THEN IF Truthy(crop)
           THEN [branch |-> "get_crop_variety_info",
                 out |-> get_crop_variety_info(b, self.crop_varieties, language, crop)]
           ELSE [branch |-> "missing_crop", out |-> localized("missing_crop")]
      ELSE IF intent = "get_market_info"
      THEN IF Truthy(location)
           THEN [branch |-> "get_market_info",
                 out |-> get_market_info(b, self.market_info, language, location)]
           ELSE [branch |-> "missing_location", out |-> localized("missing_location")]
      ELSE IF intent = "greeting"
      THEN [branch |-> "greeting", out |-> localized("greeting")]
      ELSE [branch |-> "help", out |-> Return(help_sentence(b, language))]

\* process_query(text).  ml is what the statistical classifier does when it is
\* called, scan the scans of extract_entities over the text.  The result says
\* what the call returns or raises, the values of its local variables, and
\* the conversation context and history file it leaves.
process_query(b, self, text, ml, scan) ==
  LET unchanged == [conversation_context |-> self.conversation_context,
                    history_file |-> self.history_file, saves |-> 0]
      result(intent, crop, location, variety, answer) ==
        [exc |-> answer.out.exc, response |-> answer.out.text, intent |-> intent,
         crop |-> crop, location |-> location, variety |-> variety,
         branch |-> answer.branch,
         after |-> IF answer.out.exc # "" THEN unchanged
                   ELSE update_conversation_context(
                          self.conversation_context, self.current_language, self.now,
                          self.history_file, intent, crop, location, text,
                          answer.out.text)]
      answered(intent, crop, location, variety) ==
        result(intent, crop, location, variety,
               respond(b, self, intent, crop, location, variety))
      understood(intent, entities) ==
        answered(intent, entities.crop, entities.location, entities.variety)
  IN  IF is_exit(text)
      THEN [exc |-> "", response |-> S("exit"), intent |-> "", crop |-> None,
            location |-> None, variety |-> None, branch |-> "exit", after |-> unchanged]
      ELSE understood(classify_intent(b, self.intent_classifier, ml,
                                      self.current_language, text),
                      extract_entities(b, scan, self.conversation_context))

\* ------------------------------------------------------------- the session

\* Bounds of the exploration.
MaxTurns == 2
SeedSizes == {9, 99}

\* What the user types or says in the explored sessions.
Utterances ==
  { S("price of tomato in patna"), S("hybrid tomato rate in chittor"),
    S("tomato rate in delhi after rain"), S("weather in delhi"),
    S("hello"), S("wheat seed"), S("where to sell"), S("help me"), S("ok"),
    <<2327, 2375, 2361, 2370, 2306>> \o S(" ") \o <<2325, 2366>> \o S(" ") \o <<2349, 2366, 2357>>,
    S("Stop"), <<2352, 2369, 2325, 2379>> }

\* user_input.lower() in ['quit', 'exit', 'बंद']
QuitWords == << S("quit"), S("exit"), <<2348, 2306, 2342>> >>
QuitInputs == { S("quit") }
Typed == Utterances \cup QuitInputs

\* What one call of the statistical classifier does.
MLLabels == {"get_price"}
MLOutcomes ==
  {[raises |-> TRUE, prediction |-> "", probability |-> 0]}
    \cup {[raises |-> FALSE, prediction |-> l, probability |-> p] :
            l \in MLLabels, p \in {ConfidenceThreshold - 1, ConfidenceThreshold}}

\* A record an earlier session left in data/conversation_history.csv (its
\* time is before the start of this session, which is time 0).
OldRecord ==
  [timestamp |-> -1, user_text |-> S("hello"), intent |-> "greeting",
   response |-> S("Hello! How can I help you today?"), language |-> "english"]

NoFile == [exists |-> FALSE, rows |-> <<>>]

\* The scans of extract_entities over the utterances, computed once.
ScanTable ==
  [b \in Builds |-> [u \in Utterances |-> scan_entities(b, lower(u))]]

scan_of(b, text) ==
  IF text \in Utterances THEN ScanTable[b][text] ELSE scan_entities(b, lower(text))

\* The text-to-speech engine: say() and runAndWait() of a working engine
\* return, those of a faulty engine may raise (RuntimeError) at any call.
Works == "works"
Faulty == "faulty"
SpeakRaises(engine) == IF engine = Works THEN {FALSE} ELSE BOOLEAN

VARIABLES
  build,                 \* which of the two files of the class runs
  pc,                    \* "new", "constructed", "loop" or "done"
  files,                 \* data/: each table file, Absent or DefaultRows
  history_file,          \* data/conversation_history.csv: whether it exists, its records
  models_present,        \* models/*.joblib exist
  intent_classifier,     \* self.intent_classifier
  price_data, weather_data, advice_data, localization_data, crop_varieties, market_info,
  current_language,      \* self.current_language
  conversation_context,  \* self.conversation_context
  now,                   \* the clock datetime.now() reads
  tts_engine,            \* self.tts_engine: Works, or Faulty (say/runAndWait may raise)
  call,                  \* the last call of a method made on its own: its arguments
                         \* and what it returned
  turn                   \* the last iteration of run()'s loop: its local variables and
                         \* output, and what the statistical classifier did in it (ml)

vars ==
  <<build, pc, files, history_file, models_present, intent_classifier, price_data,
    weather_data, advice_data, localization_data, crop_varieties, market_info,
    current_language, conversation_context, now, tts_engine, call, turn>>

\* The instance, as the methods see it.
self ==
  [intent_classifier |-> intent_classifier, current_language |-> current_language,
   conversation_context |-> conversation_context, price_data |-> price_data,
   weather_data |-> weather_data, advice_data |-> advice_data,
   localization_data |-> localization_data, crop_varieties |-> crop_varieties,
   market_info |-> market_info, history_file |-> history_file, now |-> now]

NoTurn ==
  [kind |-> "none", user_input |-> <<>>, user_text |-> <<>>, intent |-> "", crop |-> None,
   location |-> None, variety |-> None, branch |-> "", exc |-> "", response |-> <<>>,
   said |-> <<>>, saves |-> 0, ml |-> [raises |-> TRUE, prediction |-> "", probability |-> 0]]

EmptyContext ==
  [last_crop |-> None, last_location |-> None, last_intent |-> "None",
   conversation_history |-> <<>>]

NoCall == [op |-> "none"]

\* The disk before the program starts: a first start, with no table file, or
\* a later one, with the files the first start wrote.
Init ==
  /\ build \in Builds
  /\ pc = "new"
  /\ files \in {[f \in TableFiles |-> Absent], [f \in TableFiles |-> DefaultRows]}
  /\ history_file \in {NoFile} \cup {[exists |-> TRUE, rows |-> [i \in 1..n |-> OldRecord]] :
                                     n \in SeedSizes}
  /\ models_present \in BOOLEAN
  /\ intent_classifier = NoModel
  /\ price_data = <<>>
  /\ weather_data = EmptyDict
  /\ advice_data = EmptyDict
  /\ localization_data = EmptyDict
  /\ crop_varieties = EmptyDict
  /\ market_info = EmptyDict
  /\ current_language = "english"
  /\ conversation_context = EmptyContext
  /\ now = 0
  /\ tts_engine = Works
  /\ call = NoCall
  /\ turn = NoTurn

\* load_ml_models(): the model when both files exist and loading does not
\* raise, else None.
load_ml_models(present, load_raises) ==
  IF present /\ ~load_raises THEN Model ELSE NoModel

\* __init__: the tables are loaded, then the missing files are created, then
\* the history is loaded.
Construct ==
  /\ pc = "new"
  /\ \E load_raises \in BOOLEAN :
       intent_classifier' = load_ml_models(models_present, load_raises)
  /\ price_data' = load_mandi_price_data(files, "mandi_prices")
  /\ weather_data' = load_csv_data(files, "weather_data")
  /\ advice_data' = load_csv_data(files, "crop_advice")
  /\ localization_data' = load_csv_data(files, "localization")
  /\ crop_varieties' = load_csv_data(files, "crop_varieties")
  /\ market_info' = load_csv_data(files, "market_info")
  /\ files' = create_default_data_files(files)
  /\ conversation_context' = load_conversation_history(EmptyContext, history_file)
  /\ current_language' = "english"
  /\ pc' = "constructed"
  /\ UNCHANGED <<build, history_file, models_present, now, tts_engine, turn>>
  /\ UNCHANGED call

localized(key) == get_localized_text(localization_data, current_language, S(key), EmptyDict).text

\* run() up to the loop: the greeting is spoken; it is spoken outside the
\* try, an exception of the engine leaves run().
Run ==
  /\ pc = "constructed"
  /\ \E raises \in SpeakRaises(tts_engine) :
       IF raises
       THEN /\ pc' = "crashed"
            /\ turn' = [NoTurn EXCEPT !.kind = "greeting", !.exc = "RuntimeError"]
       ELSE /\ pc' = "loop"
            /\ turn' = [NoTurn EXCEPT !.kind = "greeting", !.said = <<localized("greeting")>>]
  /\ UNCHANGED <<build, files, history_file, models_present, intent_classifier, price_data,
                 weather_data, advice_data, localization_data, crop_varieties, market_info,
                 current_language, conversation_context, now, tts_engine>>
  /\ UNCHANGED call

\* The end of run() with no save after the loop.
Leave_without_save(kind, user_input, user_text, language) ==
  /\ pc' = "done"
  /\ turn' = [NoTurn EXCEPT !.kind = kind, !.user_input = user_input,
                            !.user_text = user_text, !.branch = "exit",
                            !.response = IF kind = "exit" THEN S("exit") ELSE <<>>,
                            !.said = <<get_localized_text(localization_data, language,
                                                          S("goodbye"), EmptyDict).text>>,
                            !.saves = 1]
  /\ current_language' = language
  /\ UNCHANGED <<build, files, models_present, intent_classifier, price_data, weather_data,
                 advice_data, localization_data, crop_varieties, market_info,
                 conversation_context, history_file, tts_engine>>

\* The end of run(): goodbye, break, save_conversation_history().
Leave(kind, user_input, user_text, language) ==
  /\ pc' = "done"
  /\ history_file' = save_conversation_history(conversation_context)
  /\ turn' = [NoTurn EXCEPT !.kind = kind, !.user_input = user_input,
                            !.user_text = user_text, !.branch = "exit",
                            !.response = IF kind = "exit" THEN S("exit") ELSE <<>>,
                            !.said = <<get_localized_text(localization_data, language,
                                                          S("goodbye"), EmptyDict).text>>,
                            !.saves = 1]
  /\ current_language' = language
  /\ UNCHANGED <<build, files, models_present, intent_classifier, price_data, weather_data,
                 advice_data, localization_data, crop_varieties, market_info,
                 conversation_context, tts_engine>>

\* The handler that lets the exception go: nothing is spoken and run() is
\* left.
Except_reraising(t, language, again) ==
  /\ pc' = "crashed"
  /\ turn' = [t EXCEPT !.said = <<>>]

\* except Exception of run(): the error message is spoken and the loop goes
\* on; when speaking it raises as well, the exception leaves run() and the
\* save after the loop is not reached.  t is the iteration so far.
Except(t, language, again) ==
  /\ pc' = IF again THEN "crashed" ELSE "loop"
  /\ turn' = [t EXCEPT !.said = IF again THEN <<>>
                                ELSE <<get_localized_text(localization_data, language,
                                                          S("error"), EmptyDict).text>>]

\* goodbye_text = get_localized_text('goodbye'); speak_response(goodbye_text);
\* break -- inside the try: when speak_response raises the break is not
\* reached and except Exception handles it.
Parting(kind, user_input, user_text, language, raises, again) ==
  IF ~raises
  THEN ~again /\ Leave(kind, user_input, user_text, language)
  ELSE /\ Except([NoTurn EXCEPT !.kind = "tts_error", !.user_input = user_input,
                                !.user_text = user_text, !.exc = "RuntimeError"],
                 language, again)
       /\ current_language' = language
       /\ UNCHANGED <<build, files, history_file, models_present, intent_classifier,
                      price_data, weather_data, advice_data, localization_data,
                      crop_varieties, market_info, conversation_context, tts_engine>>

\* One iteration from process_query(user_text) on, with the language already
\* set by the caller: the response is spoken, or the exception handled.
Process(user_input, user_text, language, ml) ==
  LET me == [self EXCEPT !.current_language = language]
      iteration(r) ==
        [kind |-> "response", user_input |-> user_input, user_text |-> user_text,
         intent |-> r.intent, crop |-> r.crop, location |-> r.location,
         variety |-> r.variety, branch |-> r.branch, exc |-> r.exc, response |-> <<>>,
         said |-> <<>>, saves |-> 0, ml |-> ml]
  IN  \E r \in {process_query(build, me, user_text, ml, scan_of(build, user_text))},
         raises \in SpeakRaises(tts_engine), again \in SpeakRaises(tts_engine) :
      IF r.exc # ""
      THEN \* process_query raised: nothing was spoken before the handler
           /\ ~raises
           /\ Except([iteration(r) EXCEPT !.kind = "error"], language, again)
           /\ current_language' = language
           /\ UNCHANGED <<build, files, history_file, models_present, intent_classifier,
                          price_data, weather_data, advice_data, localization_data,
                          crop_varieties, market_info, conversation_context, tts_engine>>
      ELSE IF r.response = S("exit")
      THEN Parting("exit", user_input, user_text, language, raises, again)
      ELSE /\ IF raises
              THEN Except([iteration(r) EXCEPT !.kind = "tts_error", !.exc = "RuntimeError",
                                               !.response = r.response,
                                               !.saves = r.after.saves],
                          language, again)
              ELSE /\ ~again
                   /\ pc' = "loop"
                   /\ turn' = [iteration(r) EXCEPT !.response = r.response,
                                                   !.said = <<r.response>>,
                                                   !.saves = r.after.saves]
           /\ current_language' = language
           /\ conversation_context' = r.after.conversation_context
           /\ history_file' = r.after.history_file
           /\ UNCHANGED <<build, files, models_present, intent_classifier, price_data,
                          weather_data, advice_data, localization_data, crop_varieties,
                          market_info, tts_engine>>

\* The user types quit, exit or बंद.
QuitTurn ==
  /\ pc = "loop"
  /\ tts_engine = Faulty => now < MaxTurns  \* with a faulty engine the loop may go on
  /\ \E user_input \in Typed :
       /\ In(lower(user_input), QuitWords)
       /\ \E raises \in SpeakRaises(tts_engine), again \in SpeakRaises(tts_engine) :
            Parting("quit", user_input, <<>>, current_language, raises, again)
  /\ now' = now + 1
  /\ UNCHANGED call

\* The user types anything else that is not empty.
TypedTurn ==
  /\ pc = "loop"
  /\ now < MaxTurns
  /\ \E user_input \in Typed, ml \in MLOutcomes :
       /\ ~In(lower(user_input), QuitWords)
       /\ user_input # <<>>
       /\ intent_classifier = NoModel => ml.raises
       /\ Process(user_input, user_input, detect_language(build, user_input), ml)
  /\ now' = now + 1
  /\ UNCHANGED call

\* What recognizer.listen and recognize_google do in one call of
\* listen_to_speech: one of the three errors, or a recognised text.
Spoken == { S("quit"), S("hello") }
SpeechOutcomes ==
  {[error |-> e, text |-> <<>>] : e \in {"UnknownValueError", "RequestError", "WaitTimeoutError"}}
    \cup {[error |-> "", text |-> t] : t \in Spoken}

\* listen_to_speech(): the recognised text, with the language detected from
\* it, or the message of the error in the current language.
listen_to_speech(b, localization, language, heard) ==
  IF heard.error = ""
  THEN [text |-> heard.text, language |-> detect_language(b, heard.text)]
  ELSE [text |-> get_localized_text(
                   localization, language,
                   IF heard.error = "UnknownValueError" THEN S("not_understood")
                   ELSE IF heard.error = "RequestError" THEN S("service_unavailable")
                   ELSE S("no_speech"),
                   EmptyDict).text,
        language |-> language]

FailurePrefixes ==
  << S("Sorry"), S("No speech"), <<2325, 2381, 2359, 2350, 2366>>,
     <<2325, 2379, 2312>> \o S(" ") \o <<2349, 2366, 2359, 2339>> >>

\* The user presses Enter without typing: the utterance is captured by speech.
SpeechTurn ==
  /\ pc = "loop"
  /\ now < MaxTurns
  /\ \E heard \in SpeechOutcomes, ml \in MLOutcomes :
       \E l \in {listen_to_speech(build, localization_data, current_language, heard)} :
         IF \E k \in 1..Len(FailurePrefixes) : startswith(l.text, FailurePrefixes[k])
         THEN \* the message is spoken and the loop continues
              /\ ml.raises
              /\ \E raises \in SpeakRaises(tts_engine), again \in SpeakRaises(tts_engine) :
                   IF raises
                   THEN Except([NoTurn EXCEPT !.kind = "tts_error", !.user_text = l.text,
                                              !.exc = "RuntimeError"], l.language, again)
                   ELSE /\ ~again
                        /\ pc' = "loop"
                        /\ turn' = [NoTurn EXCEPT !.kind = "speech_failure",
                                                  !.user_text = l.text, !.said = <<l.text>>]
              /\ current_language' = l.language
              /\ UNCHANGED <<build, files, history_file, models_present, intent_classifier,
                             price_data, weather_data, advice_data, localization_data,
                             crop_varieties, market_info, conversation_context, tts_engine>>
         ELSE /\ intent_classifier = NoModel => ml.raises
              /\ Process(<<>>, l.text, l.language, ml)
  /\ now' = now + 1
  /\ UNCHANGED call

\* The user interrupts input() with Ctrl-C: except KeyboardInterrupt speaks
\* the goodbye; an exception raised inside that handler leaves run().
Interrupt ==
  /\ pc = "loop"
  /\ \E raises \in SpeakRaises(tts_engine) :
       IF raises
       THEN /\ pc' = "crashed"
            /\ turn' = [NoTurn EXCEPT !.kind = "interrupt", !.exc = "RuntimeError"]
            /\ UNCHANGED <<build, files, history_file, models_present, intent_classifier,
                           price_data, weather_data, advice_data, localization_data,
                           crop_varieties, market_info, current_language,
                           conversation_context, tts_engine>>
       ELSE Leave("interrupt", <<>>, <<>>, current_language)
  /\ now' = now + 1
  /\ UNCHANGED call

\* The engine stops working (the audio device is lost) while run() runs.
EngineBreaks ==
  /\ pc \in {"constructed", "loop"}
  /\ tts_engine = Works
  /\ tts_engine' = Faulty
  /\ UNCHANGED <<build, pc, files, history_file, models_present, intent_classifier,
                 price_data, weather_data, advice_data, localization_data, crop_varieties,
                 market_info, current_language, conversation_context, now, turn>>
  /\ UNCHANGED call

Next ==
  \/ Construct
  \/ Run
  \/ TypedTurn
  \/ SpeechTurn
  \/ QuitTurn
  \/ Interrupt

\* The sessions of a program whose text-to-speech engine works.
Spec == Init /\ [][Next]_vars

\* The sessions in which the engine may stop working.
NextTTS ==
  \/ Next
  \/ EngineBreaks

SpecTTS == Init /\ [][NextTTS]_vars


\* ---------------------------------------------- methods called on their own

\* Each method is called once on an instance, with every input of its set.

\* The instance the calls are made on: everything but the call itself.
session ==
  <<build, pc, files, history_file, models_present, intent_classifier, price_data,
    weather_data, advice_data, localization_data, crop_varieties, market_info,
    current_language, conversation_context, now, tts_engine, turn>>

\* The conversation context a call finds: that of a new session, or the one
\* earlier turns of the session left (a crop, a location, or both).
ContextAfter(context, intent, crop, location, user_text) ==
  update_conversation_context(context, "english", 0, NoFile, intent, crop, location,
                              user_text, S("ok")).conversation_context
CallContexts ==
  {EmptyContext,
   ContextAfter(EmptyContext, "get_variety_info", S("wheat"), None, S("wheat seed")),
   ContextAfter(EmptyContext, "get_weather", None, S("delhi"), S("weather in delhi")),
   ContextAfter(EmptyContext, "get_price", S("potato"), S("pune"), S("potato rate in pune"))}

\* An instance in the middle of a session, in either file of the class.
InitCalls ==
  /\ build \in Builds
  /\ pc = "loop"
  /\ files = [f \in TableFiles |-> Absent]
  /\ history_file = NoFile
  /\ models_present = FALSE
  /\ intent_classifier = NoModel
  /\ price_data = <<>>
  /\ weather_data = EmptyDict
  /\ advice_data = EmptyDict
  /\ localization_data = EmptyDict
  /\ crop_varieties = EmptyDict
  /\ market_info = EmptyDict
  /\ current_language \in {"english", "hindi"}
  /\ conversation_context \in CallContexts
  /\ now = 1
  /\ tts_engine = Works
  /\ call = NoCall
  /\ turn = NoTurn

\* The templates an entry of the localization table may hold.
LocalizedTemplates ==
  [c \in {S("english"), S("hindi")} |->
     IF c = S("english") THEN S("Hello! How can I help you today?")
     ELSE <<2344, 2350, 2360, 2381, 2340, 2375, 33>>]

\* The localization tables of the calls: without the key, or with an entry
\* for it that holds any of the two templates.
LocalizationTables(key) ==
  {EmptyDict} \cup
    {<<[key |-> key, value |-> [c \in columns |-> LocalizedTemplates[c]]]>> :
       columns \in SUBSET DOMAIN LocalizedTemplates}

\* get_localized_text(key) with self.localization_data and
\* self.current_language as given.
CallGetLocalizedText ==
  /\ call = NoCall
  /\ \E key \in {S("greeting")}, language \in {"english", "hindi"} :
       \E table \in LocalizationTables(key) :
         call' = [op |-> "get_localized_text", localization_data |-> table,
                  language |-> language, key |-> key,
                  result |-> get_localized_text(table, language, key, EmptyDict)]
  /\ UNCHANGED session

\* Templates for the calls of get_localized_text with keyword arguments
\* crop and location: both fields among the arguments, a named field that is
\* not among them (alone, and after one that is), a field without a name, a
\* numbered field, and no field at all.
FormatTemplates ==
  { S("Price of {crop} in {location}"), S("Price of {crop} is {price}"),
    S("Price is {price}"), S("Price of {} in {location}"), S("Price of {0}"),
    S("No price") }

\* get_localized_text(key, crop='wheat', location='patna') with the english
\* template of the entry as given.
CallGetLocalizedTextFormatted ==
  /\ call = NoCall
  /\ \E template \in FormatTemplates :
       \E table \in {<<[key |-> S("price_info"),
                        value |-> [c \in {S("english")} |-> template]]>>},
          kwargs \in {Kw(<<"crop", "location">>, <<S("wheat"), S("patna")>>)} :
         call' = [op |-> "get_localized_text(**kwargs)", template |-> template,
                  kwargs |-> kwargs,
                  result |-> get_localized_text(table, current_language, S("price_info"),
                                                kwargs)]
  /\ UNCHANGED session

\* For each record of the default mandi table, the utterance
\* "<name> rate in <district>": name the key of crop_name_mapping whose
\* commodity is the Commodity of the record, district its District in lower
\* case.
RateUtterance(row) ==
  crop_name_mapping[CHOOSE i \in 1..Len(crop_name_mapping) :
                      crop_name_mapping[i][2] = row[4]][1]
    \o S(" rate in ") \o lower(row[2])
RateUtterances ==
  {[row |-> k, text |-> RateUtterance(default_mandi_data[k])] : k \in 2..Len(default_mandi_data)}

\* An instance whose tables are those of the default files, with an empty
\* context and no statistical model.
DefaultInstance ==
  [self EXCEPT !.intent_classifier = NoModel,
               !.conversation_context = EmptyContext,
               !.price_data = load_mandi_price_data([f \in TableFiles |-> DefaultRows],
                                                    "mandi_prices"),
               !.weather_data = load_csv_data([f \in TableFiles |-> DefaultRows], "weather_data"),
               !.advice_data = load_csv_data([f \in TableFiles |-> DefaultRows], "crop_advice"),
               !.localization_data = load_csv_data([f \in TableFiles |-> DefaultRows],
                                                   "localization"),
               !.crop_varieties = load_csv_data([f \in TableFiles |-> DefaultRows],
                                                "crop_varieties"),
               !.market_info = load_csv_data([f \in TableFiles |-> DefaultRows], "market_info")]

\* One typed utterance on the default instance: detect_language, then
\* process_query.
CallProcessQuery ==
  /\ call = NoCall
  /\ \E typed \in RateUtterances :
       \E language \in {detect_language(build, typed.text)} :
         \E r \in {process_query(build, [DefaultInstance EXCEPT !.current_language = language],
                                  typed.text, NoTurn.ml, scan_of(build, typed.text))} :
           call' = [op |-> "process_query", row |-> typed.row, text |-> typed.text,
                    language |-> language, intent |-> r.intent, crop |-> r.crop,
                    location |-> r.location, variety |-> r.variety, exc |-> r.exc,
                    response |-> r.response]
  /\ UNCHANGED session

\* Utterances of one or two words for the English chain of
\* classify_intent_rule_based: the four market words, a word of each earlier
\* list, and a word of no list.
ChainVocabulary ==
  { S("market"), S("Mandi"), S("sell"), S("buy"), S("price"), S("rain"), S("help"),
    S("hello"), S("seed"), S("wheat") }
ChainTexts ==
  ChainVocabulary \cup {a \o S(" ") \o b : a \in ChainVocabulary, b \in ChainVocabulary}

\* classify_intent_rule_based(text) with self.current_language = 'english'.
CallClassifyIntentRuleBased ==
  /\ call = NoCall
  /\ \E text \in ChainTexts :
       call' = [op |-> "classify_intent_rule_based", language |-> "english", text |-> text,
                result |-> classify_intent_rule_based(build, "english", text)]
  /\ UNCHANGED session

\* The price records of the calls: tomato records of one market that differ
\* only by their Arrival Date (one of them not a day-month-year date), and a
\* record of another commodity with a date later than all of them.
MaxRecords == 3
ArrivalDates == {S("31-12-2023"), S("05-01-2024"), S("6-1-2024"), S("2024-01-07")}
PriceRecord(commodity, date) ==
  DictReader(<<default_mandi_data[1],
               <<S("Bihar"), S("Patna"), S("Patna"), commodity, S("Hybrid"), S("FAQ"), date,
                 S("1000"), S("1400"), S("1200")>>>>)[1]
PriceRecords ==
  {PriceRecord(S("Tomato"), d) : d \in ArrivalDates} \cup {PriceRecord(S("Wheat"), S("28-02-2024"))}
PriceTables == UNION {[1..n -> PriceRecords] : n \in 2..MaxRecords}

\* get_crop_price_from_mandi('tomato', 'patna') with self.price_data as given.
CallGetCropPriceFromMandi ==
  /\ call = NoCall
  /\ \E table \in PriceTables :
       call' = [op |-> "get_crop_price_from_mandi", price_data |-> table,
                crop |-> S("tomato"), location |-> S("patna"),
                result |-> get_crop_price_from_mandi(table, S("tomato"), S("patna"), None)]
  /\ UNCHANGED session

\* An extract_entities that keeps what it found in the context.
CallExtractEntities_remembering ==
  /\ call = NoCall
  /\ \E text \in Utterances :
       \E found \in {extract_entities(build, scan_of(build, text), conversation_context)} :
         /\ call' = [op |-> "extract_entities", text |-> text, result |-> found]
         /\ conversation_context' = [conversation_context EXCEPT !.last_crop = found.crop,
                                                                 !.last_location = found.location]
  /\ UNCHANGED <<build, pc, files, history_file, models_present, intent_classifier,
                 price_data, weather_data, advice_data, localization_data, crop_varieties,
                 market_info, current_language, now, tts_engine, turn>>

\* extract_entities(text) on the instance: it reads self.conversation_context
\* and assigns nothing.
CallExtractEntities ==
  /\ call = NoCall
  /\ \E text \in Utterances :
       call' = [op |-> "extract_entities", text |-> text,
                result |-> extract_entities(build, scan_of(build, text), conversation_context)]
  /\ UNCHANGED session

\* Utterances for the scans of extract_entities taken alone: with variants of
\* two keys, the later key matched by a longer variant or as a whole word;
\* with capitals; with no variant at all.
ScanTexts ==
  Utterances \cup { S("black gram"), S("Tomato Price"), S("rice in new delhi up"),
                    S("local sona in andhra krishna"), S("kal milte hain") }

\* The three scans of extract_entities(text), before the fallback to the
\* context.
CallScanEntities ==
  /\ call = NoCall
  /\ \E text \in ScanTexts :
       call' = [op |-> "scan_entities", text |-> text, result |-> scan_of(build, text)]
  /\ UNCHANGED session

\* Utterances of two words for the classifier of AgriculturalAssistantEnhanced:
\* a price word and a weather word, each from the Hindi or the English list,
\* in both orders; and each word alone.
ChainWords(chain, k) == {chain[k].words[i] : i \in 1..Len(chain[k].words)}
PriceWords == ChainWords(Enhanced_hindi_chain, 1) \cup ChainWords(Enhanced_english_chain, 1)
WeatherWords == ChainWords(Enhanced_hindi_chain, 2) \cup ChainWords(Enhanced_english_chain, 2)
PriceAndWeatherTexts ==
  PriceWords \cup WeatherWords
    \cup {p \o S(" ") \o w : p \in PriceWords, w \in WeatherWords}
    \cup {w \o S(" ") \o p : p \in PriceWords, w \in WeatherWords}

\* AgriculturalAssistantEnhanced.classify_intent_rule_based(text).
CallEnhancedClassifyIntentRuleBased ==
  /\ call = NoCall
  /\ \E text \in PriceAndWeatherTexts :
       call' = [op |-> "Enhanced.classify_intent_rule_based", text |-> text,
                result |-> Enhanced_classify_intent_rule_based(text)]
  /\ UNCHANGED session

\* The utterances of the detect_language calls: up to MaxWords words, each a
\* Roman-script Hindi word, the same kind of word capitalised, an English
\* word or a Devanagari word, joined by single spaces; and utterances of
\* whitespace only.
MaxWords == 5
Vocabulary == {S("ka"), S("Mausam"), S("delhi"), <<2349, 2366, 2357>>}
RECURSIVE Join(_)
Join(words) ==
  IF words = <<>> THEN <<>>
  ELSE IF Len(words) = 1 THEN words[1]
  ELSE words[1] \o S(" ") \o Join(Tail(words))
Typings ==
  {[words |-> ws, text |-> Join(ws)] : ws \in UNION {[1..n -> Vocabulary] : n \in 0..MaxWords}}
    \cup {[words |-> <<>>, text |-> t] : t \in {S(" "), <<32, 9, 32>>}}

\* detect_language(text).
CallDetectLanguage ==
  /\ call = NoCall
  /\ \E typed \in Typings :
       call' = [op |-> "detect_language", words |-> typed.words, text |-> typed.text,
                result |-> detect_language(build, typed.text)]
  /\ UNCHANGED session

NextCalls ==
  \/ CallGetLocalizedText
  \/ CallDetectLanguage
  \/ CallScanEntities
  \/ CallClassifyIntentRuleBased
  \/ CallProcessQuery
  \/ CallGetLocalizedTextFormatted
  \/ CallEnhancedClassifyIntentRuleBased
  \/ CallExtractEntities
  \/ CallGetCropPriceFromMandi

SpecCalls == InitCalls /\ [][NextCalls]_vars
\* ================================================================ properties

Processed(t) == t.kind \in {"response", "error"}

PriceOfTomatoInPatna == S("price of tomato in patna")

\* C1: the utterance "price of tomato in patna", processed with an empty
\* context, is detected as english, classified get_price and yields
\* crop = tomato and location = patna.
C1_Scenario1 ==
  [][(/\ turn'.user_text = PriceOfTomatoInPatna
      /\ Processed(turn')
      /\ conversation_context.last_crop = None
      /\ conversation_context.last_location = None)
     => (/\ current_language' = "english"
         /\ turn'.intent = "get_price"
         /\ turn'.crop = S("tomato")
         /\ turn'.location = S("patna"))]_vars

\* C2: the rule-based classifier tests only the keyword lists of the detected
\* language, in the order price, weather, advice, greeting, variety, market,
\* and answers unknown when none matches; a text with a price word and a
\* weather word is get_price.
C2_KeywordPriority ==
  (Processed(turn) /\ intent_classifier = NoModel) =>
    LET text == lower(turn.user_text)
        hindi == current_language = "hindi"
        price == AnyIn(IF hindi THEN hindi_price_words(build) ELSE english_price_words, text)
        weather == AnyIn(IF hindi THEN hindi_weather_words(build) ELSE english_weather_words, text)
        advice == AnyIn(IF hindi THEN hindi_advice_words(build) ELSE english_advice_words, text)
        greeting == AnyIn(IF hindi THEN hindi_greeting_words(build) ELSE english_greeting_words, text)
        variety == AnyIn(IF hindi THEN hindi_variety_words(build) ELSE english_variety_words, text)
        market == AnyIn(IF hindi THEN hindi_market_words(build) ELSE english_market_words, text)
    IN  /\ price => turn.intent = "get_price"
        /\ (~price /\ weather) => turn.intent = "get_weather"
        /\ (~price /\ ~weather /\ advice) => turn.intent = "get_advice"
        /\ (~price /\ ~weather /\ ~advice /\ greeting) => turn.intent = "greeting"
        /\ (~price /\ ~weather /\ ~advice /\ ~greeting /\ variety)
             => turn.intent = "get_variety_info"
        /\ (~price /\ ~weather /\ ~advice /\ ~greeting /\ ~variety /\ market)
             => turn.intent = "get_market_info"
        /\ (~price /\ ~weather /\ ~advice /\ ~greeting /\ ~variety /\ ~market)
             => turn.intent = "unknown"

\* A rule-classified turn whose text has a price word and a weather word.
C2_Witness ==
  /\ Processed(turn)
  /\ intent_classifier = NoModel
  /\ current_language = "english"
  /\ AnyIn(english_price_words, lower(turn.user_text))
  /\ AnyIn(english_weather_words, lower(turn.user_text))
  /\ turn.intent = "get_price"

\* C3: where the text names no crop, extract_entities returns the context's
\* last_crop, where it names no location the context's last_location; the
\* variety is the one the text names and None when it names none.
C3_ContextFallback ==
  [][Processed(turn') =>
       LET scan == scan_of(build, turn'.user_text)
       IN  /\ turn'.crop = IF scan.crop # None THEN scan.crop
                           ELSE IF Truthy(conversation_context.last_crop)
                                THEN conversation_context.last_crop ELSE None
           /\ turn'.location = IF scan.location # None THEN scan.location
                               ELSE IF Truthy(conversation_context.last_location)
                                    THEN conversation_context.last_location ELSE None
           /\ turn'.variety = scan.variety]_vars

\* A turn that took its crop and its location from the context and has no
\* variety.
C3_Witness ==
  /\ Processed(turn)
  /\ scan_of(build, turn.user_text).crop = None
  /\ scan_of(build, turn.user_text).location = None
  /\ Truthy(turn.crop)
  /\ Truthy(turn.location)
  /\ turn.variety = None

\* C4: after every process_query that returns a response, the last element of
\* conversation_history is the record of that turn (user text, intent,
\* response, language) and the history has at most 100 elements, also when
\* more than 100 turns have been recorded.
C4_HistoryLastAndCap ==
  turn.kind = "response" =>
    LET history == conversation_context.conversation_history
    IN  /\ Len(history) >= 1
        /\ Len(history) <= 100
        /\ history[Len(history)] =
             [timestamp |-> now - 1, user_text |-> turn.user_text, intent |-> turn.intent,
              response |-> turn.response, language |-> current_language]

\* A full history that holds two records of this session: more than 100
\* records have been appended to it.
C4_Witness ==
  /\ turn.kind = "response"
  /\ Len(conversation_context.conversation_history) = 100
  /\ conversation_context.conversation_history[99].timestamp >= 0
  /\ conversation_context.conversation_history[1] = OldRecord

\* C5: every process_query that returns a response has set last_intent to the
\* classified intent and appended exactly one record, whose response is the
\* returned string, whichever branch produced the response.
C5_EveryResponseRecorded ==
  [][turn'.kind = "response" =>
       LET old == conversation_context.conversation_history
           new == conversation_context'.conversation_history
       IN  /\ conversation_context'.last_intent = turn'.intent
           /\ Len(new) >= 1
           /\ new[Len(new)].response = turn'.response
           /\ SubSeq(new, 1, Len(new) - 1) =
                IF Len(old) + 1 > 100 THEN SubSeq(old, Len(old) - 98, Len(old)) ELSE old]_vars

\* A response of the catch-all branch, recorded.
C5_Witness ==
  /\ turn.kind = "response"
  /\ turn.intent = "unknown"
  /\ turn.response = help_sentence(build, current_language)
  /\ conversation_context.last_intent = "unknown"

\* C6: a get_price turn with a crop and a location for which the price table
\* has no record is answered with the localized price_not_found message, and
\* no exception leaves process_query.
C6_PriceNotFound ==
  (/\ Processed(turn)
   /\ turn.intent = "get_price"
   /\ Truthy(turn.crop)
   /\ Truthy(turn.location)
   /\ get_crop_price_from_mandi(price_data, turn.crop, turn.location, turn.variety) = None)
  => (/\ turn.kind = "response"
      /\ turn.response =
           get_localized_text(localization_data, current_language, S("price_not_found"),
                              Kw(<<"crop", "location">>, <<turn.crop, turn.location>>)).text)

\* C7: a table whose file is absent at startup holds, once __init__ has
\* completed, the default records (the records of the file __init__ creates).
C7_DefaultsInMemory ==
  [][(pc = "new" /\ pc' = "constructed") =>
       /\ files["mandi_prices"] = Absent
            => price_data' = load_mandi_price_data(files', "mandi_prices")
       /\ files["weather_data"] = Absent => weather_data' = load_csv_data(files', "weather_data")
       /\ files["crop_advice"] = Absent => advice_data' = load_csv_data(files', "crop_advice")
       /\ files["localization"] = Absent
            => localization_data' = load_csv_data(files', "localization")
       /\ files["crop_varieties"] = Absent
            => crop_varieties' = load_csv_data(files', "crop_varieties")
       /\ files["market_info"] = Absent => market_info' = load_csv_data(files', "market_info")]_vars

\* C8: the response of a turn by intent: get_price looks the price up when
\* crop and location are present, asks for the crop when the crop is absent
\* (also when both are), for the location when only the location is absent;
\* get_weather and get_market_info look up when the location is present and
\* ask for it otherwise; get_advice and get_variety_info look up when the
\* crop is present and ask for it otherwise; greeting greets; every other
\* label gets the catch-all help sentence.
C8_ResponseTable ==
  Processed(turn) =>
    LET i == turn.intent
        c == Truthy(turn.crop)
        l == Truthy(turn.location)
        lang == current_language
        Is(out) == turn.exc = out.exc /\ turn.response = out.text
        Says(key) == Is(get_localized_text(localization_data, lang, S(key), EmptyDict))
    IN  /\ (i = "get_price" /\ c /\ l)
             => Is(get_crop_price(build, price_data, localization_data, lang,
                                  turn.crop, turn.location, turn.variety))
        /\ (i = "get_price" /\ ~c) => Says("missing_crop")
        /\ (i = "get_price" /\ c /\ ~l) => Says("missing_location")
        /\ (i = "get_weather" /\ l)
             => Is(get_weather_info(build, weather_data, localization_data, lang, turn.location))
        /\ (i = "get_weather" /\ ~l) => Says("missing_location")
        /\ (i = "get_advice" /\ c)
             => Is(get_agriculture_advice(build, advice_data, localization_data, lang, turn.crop))
        /\ (i = "get_advice" /\ ~c) => Says("missing_crop")
        /\ (i = "get_variety_info" /\ c)
             => Is(get_crop_variety_info(build, crop_varieties, lang, turn.crop))
        /\ (i = "get_variety_info" /\ ~c) => Says("missing_crop")
        /\ (i = "get_market_info" /\ l)
             => Is(get_market_info(build, market_info, lang, turn.location))
        /\ (i = "get_market_info" /\ ~l) => Says("missing_location")
        /\ i = "greeting" => Says("greeting")
        /\ i \notin {"get_price", "get_weather", "get_advice", "get_variety_info",
                     "get_market_info", "greeting"}
             => Is(Return(help_sentence(build, lang)))

\* A get_price turn with neither crop nor location, asked for the crop.
C8_Witness ==
  /\ turn.kind = "response"
  /\ turn.intent = "get_price"
  /\ ~Truthy(turn.crop)
  /\ ~Truthy(turn.location)
  /\ turn.response = S("Please specify a crop")

\* C9: a text whose lower-cased form is exit, quit, stop, बंद or रुको makes
\* process_query return "exit" with no intent classified and no entity
\* extracted, and leaves last_crop, last_location, last_intent and
\* conversation_history as they were.
C9_ExitShortCircuits ==
  [][(/\ turn'.kind \in {"response", "error", "exit"}
      /\ lower(turn'.user_text) \in {S("exit"), S("quit"), S("stop"), <<2348, 2306, 2342>>,
                                     <<2352, 2369, 2325, 2379>>})
     => (/\ turn'.kind = "exit"
         /\ turn'.response = S("exit")
         /\ turn'.intent = ""
         /\ turn'.crop = None
         /\ turn'.location = None
         /\ turn'.variety = None
         /\ conversation_context' = conversation_context)]_vars

\* The text "Stop" ended a session whose context was not empty.
C9_Witness ==
  /\ turn.kind = "exit"
  /\ turn.user_text = S("Stop")
  /\ Truthy(conversation_context.last_crop)
  /\ conversation_context.last_intent # "None"
  /\ conversation_context.conversation_history # <<>>

\* C10: when the user types "quit", run() leaves its loop, the goodbye message
\* of the current language is emitted and save_conversation_history is
\* executed; after the loop has ended no utterance is read.
C10_QuitEndsSession ==
  [][/\ pc # "done"
     /\ (pc = "loop" /\ lower(turn'.user_input) = S("quit"))
          => (/\ pc' = "done"
              /\ turn'.kind = "quit"
              /\ turn'.said = <<get_localized_text(localization_data, current_language,
                                                   S("goodbye"), EmptyDict).text>>
              /\ turn'.saves = 1
              /\ history_file' =
                   [exists |-> TRUE, rows |-> conversation_context'.conversation_history]
              /\ conversation_context' = conversation_context)]_vars

\* The session ended by "quit" after one turn; the one record is in the file,
\* which only the save at the end of run() has written.
C10_Witness ==
  /\ pc = "done"
  /\ turn.kind = "quit"
  /\ turn.said = <<S("Goodbye! Have a great day!")>>
  /\ Len(conversation_context.conversation_history) = 1
  /\ history_file = [exists |-> TRUE, rows |-> conversation_context.conversation_history]


\* C11: classify_intent returns the statistical classifier's prediction
\* exactly when a model was loaded (which needs the model files), the
\* prediction raises nothing and its confidence is at least 0.4; in every
\* other case the intent of the turn is that of classify_intent_rule_based on
\* the same text and language.
C11_ClassifierOrRules ==
  /\ intent_classifier = Model => models_present
  /\ Processed(turn) =>
       turn.intent =
         IF /\ intent_classifier = Model
            /\ ~turn.ml.raises
            /\ turn.ml.probability >= ConfidenceThreshold
         THEN turn.ml.prediction
         ELSE classify_intent_rule_based(build, current_language, turn.user_text)

\* A turn whose intent is the model's, at the threshold itself, where the
\* rules say otherwise.
C11_Witness ==
  /\ Processed(turn)
  /\ intent_classifier = Model
  /\ ~turn.ml.raises
  /\ turn.ml.probability = ConfidenceThreshold
  /\ turn.intent = turn.ml.prediction
  /\ turn.intent # classify_intent_rule_based(build, current_language, turn.user_text)

\* A loop iteration in which speak_response raised.
SpeakFailed(t) == t.kind = "tts_error"

\* C12: an iteration of run()'s loop in which speak_response raises does not
\* end run(): the loop goes on to read the next utterance.
C12_SpeakFailureSurvived ==
  [][(pc = "loop" /\ SpeakFailed(turn')) => pc' = "loop"]_vars

\* The three failures of speech capture.
CaptureFailures == {h \in SpeechOutcomes : h.error # ""}

\* C13: when speech capture fails (unintelligible audio, service unavailable,
\* no speech within the timeout) the loop speaks the message of that failure
\* and goes on: the message is not handed to process_query and the
\* conversation context stays as it was, whatever the current language and
\* the localization table.
C13_CaptureFailureNotProcessed ==
  [][\A heard \in CaptureFailures :
       (/\ pc = "loop"
        /\ turn'.kind # "greeting"
        /\ turn'.user_input = <<>>
        /\ turn'.user_text =
             listen_to_speech(build, localization_data, current_language, heard).text)
       => (/\ turn'.kind = "speech_failure"
           /\ turn'.said = <<turn'.user_text>>
           /\ conversation_context' = conversation_context)]_vars

\* C14: get_localized_text(key) returns the template of the current language
\* when the entry has one, otherwise the entry's English template, and
\* otherwise (no English template either, or no entry for the key) the key
\* itself.
C14_LocalizedFallback ==
  call.op = "get_localized_text" =>
    call.result =
      Return(IF ~HasKey(call.localization_data, call.key) THEN call.key
             ELSE LET entry == Lookup(call.localization_data, call.key)
                  IN  IF S(call.language) \in DOMAIN entry THEN entry[S(call.language)]
                      ELSE IF S("english") \in DOMAIN entry THEN entry[S("english")]
                      ELSE call.key)

\* The records of a table that the lookup of tomato in patna keeps, and the
\* date of a record.
TomatoRecords(table) == SelectSeq(table, LAMBDA r : r[S("Commodity")] = S("Tomato"))
ArrivalDate(record) == strptime(record[S("Arrival Date")])

\* C15: when several records remain after the commodity, location and
\* variety filters and all their Arrival Dates parse as day-month-year,
\* get_crop_price_from_mandi returns one of them that carries the latest
\* date, whatever their order in the table.
C15_LatestDate ==
  call.op = "get_crop_price_from_mandi" =>
    \A matching \in {TomatoRecords(call.price_data)} :
      (/\ Len(matching) >= 2
       /\ \A i \in 1..Len(matching) : ArrivalDate(matching[i]).ok)
      => /\ \E i \in 1..Len(matching) : call.result = matching[i]
         /\ \A i \in 1..Len(matching) :
              ArrivalDate(matching[i]).key <= ArrivalDate(call.result).key

\* Two records kept, the first in the table dated 31-12-2023 and the later
\* one 05-01-2024, which is the one returned.
C15_Witness ==
  /\ call.op = "get_crop_price_from_mandi"
  /\ \E matching \in {TomatoRecords(call.price_data)} :
       /\ Len(matching) = 2
       /\ matching[1][S("Arrival Date")] = S("31-12-2023")
       /\ matching[2][S("Arrival Date")] = S("05-01-2024")
       /\ call.result = matching[2]

HasDevanagari(text) ==
  \E i \in 1..Len(text) : text[i] >= DevanagariFirst /\ text[i] <= DevanagariLast
CountIn(words, list) ==
  Cardinality({i \in 1..Len(words) : \E k \in 1..Len(list) : words[i] = list[k]})

\* C17: detect_language returns hindi for every utterance that contains a
\* character of the Devanagari block, whatever its other characters and the
\* number of its Roman-script Hindi words.
C17_DevanagariIsHindi ==
  (call.op = "detect_language" /\ HasDevanagari(call.text)) => call.result = "hindi"

\* An utterance of five words, one of them Devanagari and none a Roman-script
\* Hindi word, detected as hindi.
C17_Witness ==
  /\ call.op = "detect_language"
  /\ Len(call.words) = MaxWords
  /\ HasDevanagari(call.text)
  /\ CountIn([i \in 1..Len(call.words) |-> lower(call.words[i])], hindi_roman_words(build)) = 0
  /\ call.result = "hindi"

\* C18, as stated: without Devanagari characters, detect_language returns
\* hindi exactly when the number of tokens that are in the Roman-script Hindi
\* word list is more than 20% of the token count.
C18_RomanShareAsTyped ==
  (call.op = "detect_language" /\ ~HasDevanagari(call.text)) =>
    (call.result = "hindi"
       <=> 5 * CountIn(call.words, hindi_roman_words(build)) > Len(call.words))

\* C18, amended: without Devanagari characters, detect_language returns hindi
\* exactly when the number of tokens whose lower-case form is in the
\* Roman-script Hindi word list is more than 20% of the token count
\* (5 * count > tokens), and english otherwise; with zero tokens it returns
\* english.
C18_RomanShare ==
  (call.op = "detect_language" /\ ~HasDevanagari(call.text)) =>
    /\ call.result \in {"hindi", "english"}
    /\ call.result = "hindi"
         <=> 5 * CountIn([i \in 1..Len(call.words) |-> lower(call.words[i])],
                         hindi_roman_words(build)) > Len(call.words)
    /\ call.words = <<>> => call.result = "english"

\* Five tokens, exactly one of them a Roman-script Hindi word: 20%, english.
C18_Witness ==
  /\ call.op = "detect_language"
  /\ ~HasDevanagari(call.text)
  /\ Len(call.words) = 5
  /\ CountIn([i \in 1..Len(call.words) |-> lower(call.words[i])], hindi_roman_words(build)) = 1
  /\ call.result = "english"

GehunKaBhav ==
  <<2327, 2375, 2361, 2370, 2306>> \o S(" ") \o <<2325, 2366>> \o S(" ") \o <<2349, 2366, 2357>>

\* The intent of a turn is the rules' when no model is loaded, the model
\* raises, or its confidence is below the threshold.
RulesDecide(ml) ==
  intent_classifier = NoModel \/ ml.raises \/ ml.probability < ConfidenceThreshold

\* C19: a typed turn with the utterance "गेहूं का भाव", its intent decided by
\* the rules, sets the language to hindi, has intent get_price and crop wheat;
\* its location is the last_location the context held before the turn when
\* that is set; with none set the location is absent and the response is the
\* missing_location message.
C19_GehunKaBhav ==
  [][(pc = "loop" /\ now' = now + 1 /\ Processed(turn') /\ turn'.user_input = GehunKaBhav
        /\ RulesDecide(turn'.ml))
     => /\ current_language' = "hindi"
        /\ turn'.intent = "get_price"
        /\ turn'.crop = S("wheat")
        /\ IF Truthy(conversation_context.last_location)
           THEN turn'.location = conversation_context.last_location
           ELSE /\ turn'.location = None
                /\ turn'.exc = ""
                /\ turn'.response =
                     get_localized_text(localization_data, "hindi", S("missing_location"),
                                        EmptyDict).text]_vars

\* The utterance processed by the rules after a turn that left a location in
\* the context: the location of the turn is that one.
C19_Witness ==
  /\ Processed(turn)
  /\ turn.user_input = GehunKaBhav
  /\ RulesDecide(turn.ml)
  /\ turn.intent = "get_price"
  /\ turn.crop = S("wheat")
  /\ Truthy(turn.location)
  /\ Len(conversation_context.conversation_history) >= 2

\* The utterance processed by the rules with no location in the context: the
\* turn asks for the location.
C19_AsksLocation ==
  /\ Processed(turn)
  /\ turn.user_input = GehunKaBhav
  /\ RulesDecide(turn.ml)
  /\ turn.branch = "missing_location"
  /\ turn.location = None

\* The turns of this session that update_conversation_context has recorded:
\* the records of the history written since the start, at time 0.
SessionTurns ==
  Cardinality({i \in 1..Len(conversation_context.conversation_history) :
                 conversation_context.conversation_history[i].timestamp >= 0})

\* C20: update_conversation_context writes the history file on exactly every
\* 10th processed turn of the session and on no other, whatever history the
\* session started with.
C20_SavesEveryTenthTurn ==
  (turn.kind = "response" /\ turn.exc = "")
    => (turn.saves = 1 <=> SessionTurns % SavePeriod = 0)

\* ------------------------------------------------------------ C21 .. C28

\* C21: in every step, a last_crop (last_location) that holds a value still
\* holds one after the step; it changes only in a processed turn whose
\* utterance contains a variant of a crop (location), and then to the key that
\* the scan of the utterance matched; a processed turn whose utterance holds
\* no such variant leaves it as it was.
C21_ContextNeverCleared ==
  [][LET before == conversation_context
         after == conversation_context'
         scan == scan_of(build, turn'.user_text)
     IN  /\ Truthy(before.last_crop) => Truthy(after.last_crop)
         /\ Truthy(before.last_location) => Truthy(after.last_location)
         /\ after.last_crop # before.last_crop
              => /\ turn'.kind = "response"
                 /\ Truthy(scan.crop)
                 /\ after.last_crop = scan.crop
         /\ after.last_location # before.last_location
              => /\ turn'.kind = "response"
                 /\ Truthy(scan.location)
                 /\ after.last_location = scan.location]_vars

\* After a turn that named a crop and a location, a second turn whose
\* utterance names neither: both are still in the context.
C21_Witness ==
  /\ turn.kind = "response"
  /\ Len(conversation_context.conversation_history) = 2
  /\ Truthy(scan_of(build, conversation_context.conversation_history[1].user_text).crop)
  /\ Truthy(scan_of(build, conversation_context.conversation_history[1].user_text).location)
  /\ ~Truthy(scan_of(build, turn.user_text).crop)
  /\ ~Truthy(scan_of(build, turn.user_text).location)
  /\ Truthy(conversation_context.last_crop)
  /\ Truthy(conversation_context.last_location)

\* The entries of a lexicon one of whose variants occurs in the lower-cased
\* utterance, by their place in the declared order.
MatchingEntries(map, text) ==
  {i \in 1..Len(map) :
     \E k \in 1..Len(map[i].variations) : Contains(lower(text), map[i].variations[k])}

\* What a scan found is the key of the first matching entry, or nothing when
\* no entry matches.
IsFirstMatch(map, text, found) ==
  IF MatchingEntries(map, text) = {} THEN found = None
  ELSE \E i \in MatchingEntries(map, text) :
         /\ \A j \in MatchingEntries(map, text) : i <= j
         /\ found = map[i].key

\* C22: for each kind of entity, the scan of extract_entities returns the
\* first key, in the declared order of the lexicon, that has a variant
\* occurring in the lower-cased utterance, whatever later keys match, and
\* returns nothing exactly when no variant of any key occurs.
C22_FirstKeyWins ==
  call.op = "scan_entities" =>
    /\ IsFirstMatch(crop_map(build), call.text, call.result.crop)
    /\ IsFirstMatch(location_map(build), call.text, call.result.location)
    /\ IsFirstMatch(variety_map(build), call.text, call.result.variety)
    /\ call.result.crop = None <=> MatchingEntries(crop_map(build), call.text) = {}
    /\ call.result.location = None <=> MatchingEntries(location_map(build), call.text) = {}
    /\ call.result.variety = None <=> MatchingEntries(variety_map(build), call.text) = {}

\* "black gram": gram is found by its variant "gram", although urd, declared
\* later, has the longer variant "black gram", the whole utterance.
C22_Witness ==
  /\ call.op = "scan_entities"
  /\ call.text = S("black gram")
  /\ call.result.crop = S("gram")
  /\ \E j \in MatchingEntries(crop_map(build), call.text) :
       /\ crop_map(build)[j].key = S("urd")
       /\ \E k \in 1..Len(crop_map(build)[j].variations) :
            crop_map(build)[j].variations[k] = call.text

\* C23: the rule-based classifier of AgriculturalAssistantEnhanced gives
\* get_price for every utterance that contains a price word and a weather
\* word, whichever of the Hindi and English lists each word is from.
C23_PriceBeforeWeather ==
  (/\ call.op = "Enhanced.classify_intent_rule_based"
   /\ \E p \in PriceWords : Contains(lower(call.text), p)
   /\ \E w \in WeatherWords : Contains(lower(call.text), w))
    => call.result = "get_price"

\* The part of C23 that the code keeps: with the two words from the same list,
\* or the price word from the Hindi list, the label is get_price.
C23_SameListOrHindiPrice ==
  (/\ call.op = "Enhanced.classify_intent_rule_based"
   /\ \E w \in WeatherWords : Contains(lower(call.text), w)
   /\ \/ \E p \in ChainWords(Enhanced_hindi_chain, 1) : Contains(lower(call.text), p)
      \/ /\ \E p \in ChainWords(Enhanced_english_chain, 1) : Contains(lower(call.text), p)
         /\ ~\E w \in ChainWords(Enhanced_hindi_chain, 2) : Contains(lower(call.text), w))
    => call.result = "get_price"

\* C24: a turn in which process_query raises is answered with the text
\* get_localized_text('error') gives in the language of the turn and with no
\* response; run() stays in its loop, and the conversation context and the
\* history file are as they were before the turn.
C24_ExceptionSurvived ==
  [][(pc = "loop" /\ turn'.kind = "error")
     => /\ pc' = "loop"
        /\ turn'.exc # ""
        /\ turn'.response = <<>>
        /\ turn'.said = <<get_localized_text(localization_data, current_language',
                                             S("error"), EmptyDict).text>>
        /\ conversation_context' = conversation_context
        /\ history_file' = history_file]_vars

\* A turn that raised, in a session whose context holds a crop from the turn
\* before; the loop is still running.
C24_Witness ==
  /\ pc = "loop"
  /\ turn.kind = "error"
  /\ turn.exc # ""
  /\ Len(turn.said) = 1
  /\ Truthy(conversation_context.last_crop)
  /\ Len(conversation_context.conversation_history) >= 1

\* C25: when the Arrival Date of one of the records that remain after the
\* filters does not parse, get_crop_price_from_mandi returns a record, the
\* first of the remaining ones in the order of the table.
C25_TableOrderOnBadDate ==
  call.op = "get_crop_price_from_mandi" =>
    \A matching \in {TomatoRecords(call.price_data)} :
      (/\ matching # <<>>
       /\ \E i \in 1..Len(matching) : ~ArrivalDate(matching[i]).ok)
      => call.result = matching[1]

\* Three records remain: the first dated 31-12-2023, the second 05-01-2024,
\* the third with a date that does not parse; the first is returned although
\* the second is later.
C25_Witness ==
  /\ call.op = "get_crop_price_from_mandi"
  /\ \E matching \in {TomatoRecords(call.price_data)} :
       /\ Len(matching) = 3
       /\ matching[1][S("Arrival Date")] = S("31-12-2023")
       /\ matching[2][S("Arrival Date")] = S("05-01-2024")
       /\ ~ArrivalDate(matching[3]).ok
       /\ call.result = matching[1]

\* The replacement fields of a template without nested or doubled braces:
\* what stands between a { and the next }.
Fields(text) ==
  {SubSeq(text, p + 1, q - 1) :
     <<p, q>> \in {pq \in (1..Len(text)) \X (1..Len(text)) :
                     /\ pq[1] < pq[2]
                     /\ text[pq[1]] = 123
                     /\ text[pq[2]] = 125
                     /\ \A o \in (pq[1] + 1)..(pq[2] - 1) : text[o] \notin {123, 125}}}

IsName(field) == \E c \in 1..Len(field) : field[c] < 48 \/ field[c] > 57

\* C26: a call of get_localized_text with keyword arguments whose template
\* has a replacement field that is not among them returns the template as it
\* is, and raises nothing.
C26_MissingPlaceholder ==
  (/\ call.op = "get_localized_text(**kwargs)"
   /\ \E field \in Fields(call.template) : ~HasKey(call.kwargs, field))
    => /\ call.result.exc = ""
       /\ call.result.text = call.template

\* The part of C26 that the code keeps: when every field of the template is
\* a name and one of them is not among the keyword arguments, the template
\* is returned as it is.
C26_MissingName ==
  (/\ call.op = "get_localized_text(**kwargs)"
   /\ \A field \in Fields(call.template) : IsName(field)
   /\ \E field \in Fields(call.template) : ~HasKey(call.kwargs, field))
    => /\ call.result.exc = ""
       /\ call.result.text = call.template

\* The record of the default mandi table in row k, as load_mandi_price_data
\* holds it in memory.
DefaultRecord(k) == DefaultInstance.price_data[k - 1]

\* C27: on the default instance, for each record of the default mandi table
\* the typed utterance "<name> rate in <district>" is answered with the
\* get_price sentence built from that record, which reports its Modal Price.
C27_EveryDefaultRecordAnswered ==
  call.op = "process_query" =>
    /\ call.intent = "get_price"
    /\ call.exc = ""
    /\ call.response = price_sentence(call.language, call.crop, DefaultRecord(call.row))
    /\ Contains(call.response, default_mandi_data[call.row][10])

\* The part of C27 that the code keeps: the records other than that of
\* Paddy(Dhan)(Common) and, in src/assistantV4/assistantV4_b.py, that of
\* Tomato.
C27_OtherRecordsAnswered ==
  (/\ call.op = "process_query"
   /\ default_mandi_data[call.row][4] # S("Paddy(Dhan)(Common)")
   /\ build = V4b => default_mandi_data[call.row][4] # S("Tomato")) =>
    /\ call.intent = "get_price"
    /\ call.exc = ""
    /\ call.response = price_sentence(call.language, call.crop, DefaultRecord(call.row))
    /\ Contains(call.response, default_mandi_data[call.row][10])

\* Whether the lower-cased text holds one of some words.
HasWord(text, words) == \E w \in words : Contains(lower(text), w)
ListWords(list) == {list[i] : i \in 1..Len(list)}

\* C28: in the English chain, every utterance that contains "market" or
\* "mandi" is classified get_price; get_market_info is returned only for an
\* utterance that contains "sell" or "buy" and no price, weather, advice,
\* greeting or variety keyword.
C28_MarketWordsArePriceWords ==
  call.op = "classify_intent_rule_based" =>
    /\ HasWord(call.text, {S("market"), S("mandi")}) => call.result = "get_price"
    /\ call.result = "get_market_info"
         => /\ HasWord(call.text, {S("sell"), S("buy")})
            /\ ~HasWord(call.text, ListWords(english_price_words))
            /\ ~HasWord(call.text, ListWords(english_weather_words))
            /\ ~HasWord(call.text, ListWords(english_advice_words))
            /\ ~HasWord(call.text, ListWords(english_greeting_words))
            /\ ~HasWord(call.text, ListWords(english_variety_words))

\* An utterance with "sell" and "market" classified get_price.
C28_Witness ==
  /\ call.op = "classify_intent_rule_based"
  /\ HasWord(call.text, {S("sell")})
  /\ HasWord(call.text, {S("market")})
  /\ call.result = "get_price"

\* An utterance with "buy" and no keyword of an earlier list, classified
\* get_market_info.
C28_MarketInfoReached ==
  /\ call.op = "classify_intent_rule_based"
  /\ HasWord(call.text, {S("buy")})
  /\ call.result = "get_market_info"
====
